---- MODULE Spec2Model ----
(***************************************************************************)
(* QuizNet server: client table, session table, per-connection handler     *)
(* threads, detached start threads and the session engine of               *)
(* server/src/server.c and server/src/handlers/*.c.                        *)
(*                                                                         *)
(* Granularity: one action per critical section (pthread_mutex_lock ..     *)
(* pthread_mutex_unlock of the session mutex, with the clients-mutex       *)
(* sections of send_to_client nested inside it) and one action per         *)
(* unlocked read that precedes a later lock.  A handler thread's position  *)
(* between two such steps is its pc.                                       *)
(***************************************************************************)
EXTENDS Integers, Sequences, FiniteSets, TLC

(***************************************************************************)
(* Bounds of the model.  MAX_CLIENTS, MAX_SESSIONS, MIN_NB_QUESTIONS and   *)
(* MAX_NB_QUESTIONS are the program's limits scaled down (the code has     *)
(* 100, 20, 10 and 50).  MaxClientId, MaxSessionId and MaxStartThreads     *)
(* bound the connections accepted, the sessions created and the start      *)
(* threads spawned in a behaviour of Spec; LobbySpec widens the first two  *)
(* and RestartSpec the third.  MaxCount caps the event counters.           *)
(* MAX_MESSAGE_LEN is the size of client_handler's receive buffer, scaled  *)
(* down from 8192.                                                         *)
(***************************************************************************)
MAX_CLIENTS == 3
MAX_SESSIONS == 2
MIN_NB_QUESTIONS == 2
MAX_NB_QUESTIONS == 3
MaxClientId == 2
MaxSessionId == 1
MaxStartThreads == 1
LobbyClientIds == 3
LobbySessionIds == 2
RestartThreads == 2
MaxCount == 2
StartPlaces == 3
ReuseSessionIds == 3
MAX_MESSAGE_LEN == 3
BattleLives == 2
MAX_PLAYERS_PER_SESSION == 3
CapacityClientIds == 4
CapacitySessionIds == 2

(* Program constants kept at their source values. *)
MIN_TIME_LIMIT == 10
MAX_TIME_LIMIT == 60
MIN_LIVES == 1
MAX_LIVES == 10
MIN_MAX_PLAYERS == 2
SKIP_ANSWER == -2
MAX_PSEUDO_LEN == 32

Slots == 0 .. (MAX_CLIENTS - 1)
SSlots == 0 .. (MAX_SESSIONS - 1)
QIdx == 0 .. (MAX_NB_QUESTIONS - 1)
Max(a, b) == IF a > b THEN a ELSE b
ClientIds == 1 .. Max(Max(MaxClientId, LobbyClientIds), CapacityClientIds)

VARIABLES
    clients,          \* ServerState.clients[]: one Client record per slot
    num_clients,      \* ServerState.num_clients
    next_client_id,   \* ServerState.next_client_id
    sessions,         \* ServerState.sessions[]: one Session record per slot
    num_sessions,     \* ServerState.num_sessions
    next_session_id,  \* ServerState.next_session_id
    pc,               \* position of the client_handler thread of each slot
    hsess,            \* the Session* local of that thread (a slot index)
    removed,          \* the int removed[2] local of handle_joker in that thread
    starters,         \* detached start_session_thread threads per session slot: how
                      \* many are before start_session (start) and in its sleep
                      \* (sleep), and whose requests spawned the former (by)
    num_starts,       \* start threads created so far
    accounts,         \* ServerState.accounts[0 .. num_accounts-1]; the field request
                      \* of an account is the pseudo and password it was
                      \* registered with (history)
    nresp,            \* responses still owed for the request last dispatched
    response,         \* the response written for that request, NoResponse while none
    observed,         \* the actions whose responses are recorded in this behaviour
    newSent,          \* per session slot and index: question/new broadcasts
    resSent,          \* per session slot and index: question/results broadcasts
    finSent,          \* per session slot and client id: session/finished written
    endMembers,       \* per session slot: members when end_session first ran
    accepted,         \* per session slot, client id and index: an answer or skip was accepted
    gained,           \* per session slot and client id: the points added to the score
                      \* since the current question index was set (recorded when
                      \* the responses are)
    message_buffer,   \* the char message_buffer[] local of client_handler in each slot
    expecting_json,   \* its int expecting_json
    pending_request,  \* its char pending_request[]
    lastPlayer,       \* per session slot: the player named lastPlayer in the latest
                      \* question/results, 0 if none was
    newTo,            \* per session slot: the clients the latest question/new was
                      \* written for
    ranking,          \* per session slot: the ranking array of the latest
                      \* session/finished and its winner
    datagram,         \* the datagram udp_discovery_handler received last: its source
                      \* address and payload
    reply,            \* the datagram it sent in answer, NoDatagram if none
    leftTo,           \* per session slot: the clients the latest session/player/left
                      \* was written to
    mutex_owner,      \* per pthread mutex: the thread that holds it, NoThread if free
    lock_program      \* per thread: the mutex operations left of the function it runs

vars == <<clients, num_clients, next_client_id, sessions, num_sessions,
          next_session_id, pc, hsess, removed, starters, num_starts, accounts, nresp,
          response, observed, newSent, resSent, finSent, endMembers, accepted, gained,
          message_buffer, expecting_json, pending_request, datagram, reply,
          lastPlayer, newTo, ranking, leftTo, mutex_owner, lock_program>>

clientVars == <<clients, num_clients, next_client_id>>
sessionVars == <<sessions, num_sessions, next_session_id>>
eventVars == <<newSent, resSent, finSent, endMembers, accepted, gained, lastPlayer,
               newTo, ranking>>
wireVars == <<message_buffer, expecting_json, pending_request, datagram, reply>>
lockVars == <<mutex_owner, lock_program>>

(* the threads of the server: main's accept loop, the client_handler threads
   and a detached start_session_thread *)
LockThreads == {"main", "client_handler_0", "client_handler_1", "start_session_thread"}
NoThread == ""
SessionMutexNames == <<"sessions[0].mutex", "sessions[1].mutex">>
session_mutex(sl) == SessionMutexNames[sl + 1]
Mutexes == {"clients_mutex", "sessions_mutex", "accounts_mutex"}
           \cup {session_mutex(sl) : sl \in SSlots}

Min(a, b) == IF a < b THEN a ELSE b
Bump(n) == Min(n + 1, MaxCount)

(***************************************************************************)
(* Question bank (data/questions.dat as loaded by load_questions): just    *)
(* enough easy questions of theme 0 for one session, the second a text     *)
(* question and the others multiple choice, and one hard true/false        *)
(* question of theme 1.                                                    *)
(***************************************************************************)
(* the four option strings of multiple choice question n, each written
   <<n, index>>; the array is left empty for the other kinds *)
Options(n) == [k \in 0 .. 3 |-> <<n, k>>]
NoOptions == [k \in 0 .. 3 |-> << >>]

EasyQuestion(n) ==
    [id |-> n, difficulty |-> "easy", themes |-> {0},
     type |-> IF n = 2 THEN "text" ELSE "qcm",
     answers |-> IF n = 2 THEN NoOptions ELSE Options(n),
     correct_answer |-> IF n = 2 THEN 0 ELSE 2,
     text_answers |-> IF n = 2 THEN {"paris"} ELSE {}]

Bank ==
    {EasyQuestion(n) : n \in 1 .. MIN_NB_QUESTIONS}
    \cup {[id |-> MIN_NB_QUESTIONS + 1, difficulty |-> "hard", themes |-> {1},
           type |-> "boolean", answers |-> NoOptions, correct_answer |-> 1,
           text_answers |-> {}]}

Question(qid) == CHOOSE q \in Bank : q.id = qid

(* memset(.., 0, sizeof) images of the records *)
ZeroClient ==
    [id |-> 0, connected |-> FALSE, authenticated |-> FALSE,
     current_session_id |-> 0]

ZeroSession ==
    [id |-> 0, status |-> "waiting", mode |-> "solo", difficulty |-> "easy",
     num_questions |-> 0, time_limit |-> 0, initial_lives |-> 0,
     max_players |-> 0, players |-> << >>, creator_client_id |-> 0,
     question_ids |-> << >>, current_question |-> 0,
     question_started |-> FALSE]

(* the JSON of a response: its action, statut and message fields *)
Json(action, code, message) ==
    [action |-> action, statut |-> code, message |-> message, remainingAnswers |-> << >>]
send_error(action, status, message) == Json(action, status, message)
NoResponse == Json("", 0, "")

NoDatagram == [addr |-> "", payload |-> << >>]
NoRanking == [winner |-> 0, ranking |-> << >>]

ZeroCounts == [k \in QIdx |-> 0]
ZeroFin == [c \in ClientIds |-> 0]
ZeroAccepted == [c \in ClientIds |-> [k \in QIdx |-> FALSE]]

InitWith(obs) ==
    /\ clients = [i \in Slots |-> ZeroClient]
    /\ num_clients = 0
    /\ next_client_id = 1
    /\ sessions = [s \in SSlots |-> ZeroSession]
    /\ num_sessions = 0
    /\ next_session_id = 1
    /\ pc = [i \in Slots |-> "none"]
    /\ hsess = [i \in Slots |-> -1]
    /\ removed = [i \in Slots |-> {}]
    /\ starters = [s \in SSlots |-> [start |-> 0, sleep |-> 0, by |-> {}]]
    /\ num_starts = 0
    /\ accounts = << >>
    /\ nresp = [i \in Slots |-> 0]
    /\ response = [i \in Slots |-> NoResponse]
    /\ observed = obs
    /\ newSent = [s \in SSlots |-> ZeroCounts]
    /\ resSent = [s \in SSlots |-> ZeroCounts]
    /\ finSent = [s \in SSlots |-> ZeroFin]
    /\ endMembers = [s \in SSlots |-> {}]
    /\ accepted = [s \in SSlots |-> ZeroAccepted]
    /\ gained = [s \in SSlots |-> ZeroFin]
    /\ message_buffer = [i \in Slots |-> << >>]
    /\ expecting_json = [i \in Slots |-> FALSE]
    /\ pending_request = [i \in Slots |-> << >>]
    /\ datagram = NoDatagram
    /\ reply = NoDatagram
    /\ lastPlayer = [s \in SSlots |-> 0]
    /\ newTo = [s \in SSlots |-> {}]
    /\ ranking = [s \in SSlots |-> NoRanking]
    /\ leftTo = [s \in SSlots |-> {}]
    /\ mutex_owner = [m \in Mutexes |-> NoThread]
    /\ lock_program = [t \in LockThreads |-> << >>]

(* the server after init_server and load_questions; the responses are not
   recorded *)
Init == InitWith({})

(* the action fields of the responses *)
Actions ==
    {"", "themes/list", "sessions/list", "player/register", "player/login",
     "session/create", "session/join", "session/start", "question/answer", "joker/use"}

(* the same state; the responses are recorded *)
InitObserved == InitWith(Actions)

(* the action fields of the broadcasts *)
Broadcasts == {"question/new", "question/results", "session/finished"}

(* the same state; the broadcasts are recorded *)
InitBroadcast == InitWith(Broadcasts)

(* the same state; the responses to joker/use are recorded *)
InitJoker == InitWith({"joker/use"})

(***************************************************************************)
(* Account store (player.c).  Pseudos and passwords are sequences of byte   *)
(* values, without the terminating 0.                                      *)
(***************************************************************************)
RECURSIVE djb2(_, _)
djb2(hash, str) ==
    IF str = << >> THEN hash
    ELSE djb2(hash * 33 + Head(str), Tail(str))

(* sha256_hash: the digest is a function of the djb2 value alone *)
sha256_hash(input) == djb2(5381, input)

(* a pseudo of n bytes *)
LongPseudo(n) == [k \in 1 .. n |-> 120]

Alice == <<97, 108, 105, 99, 101>>
Pseudos == {Alice}
GoodPassword == <<112, 49>>
BadPassword == <<98>>

(* strncpy(dst, src, n); dst[n] = 0: the string left in dst *)
strncpy(src, n) == SubSeq(src, 1, Min(Len(src), n))

(* index of the first account whose pseudo strcmp finds equal, 0 if none *)
find_account(acc, pseudo) ==
    IF \E k \in 1 .. Len(acc) : acc[k].pseudo = pseudo
    THEN CHOOSE k \in 1 .. Len(acc) :
            /\ acc[k].pseudo = pseudo
            /\ \A j \in 1 .. Len(acc) : acc[j].pseudo = pseudo => k <= j
    ELSE 0

(* register_player: 0 ok, -1 pseudo exists, -2 store full *)
register_result(acc, pseudo) ==
    IF find_account(acc, pseudo) # 0 THEN -1
    ELSE IF Len(acc) >= MAX_CLIENTS THEN -2
    ELSE 0

(* register_player: the store it leaves when it returns 0 *)
register_player(acc, pseudo, password) ==
    Append(acc, [pseudo |-> strncpy(pseudo, MAX_PSEUDO_LEN - 1),
                 password_hash |-> sha256_hash(password),
                 request |-> <<pseudo, password>>])

(* login_player: 0 ok, -1 wrong password or unknown pseudo *)
login_result(acc, pseudo, password) ==
    LET k == find_account(acc, pseudo)
    IN IF k # 0 /\ acc[k].password_hash = sha256_hash(password) THEN 0 ELSE -1

(***************************************************************************)
(* send_to_client: the message is written iff one of the first num_clients *)
(* slots holds a connected client with that id.                            *)
(***************************************************************************)
send_to_client(cl, nc, client_id) ==
    \E i \in Slots : i < nc /\ cl[i].id = client_id /\ cl[i].connected

(***************************************************************************)
(* Session helpers (server.c).                                             *)
(***************************************************************************)
find_session(ss, session_id) ==
    IF \E s \in SSlots : ss[s].id = session_id
    THEN CHOOSE s \in SSlots :
            ss[s].id = session_id /\ \A t \in SSlots : ss[t].id = session_id => s <= t
    ELSE -1

PlayerIds(s) == {s.players[i].client_id : i \in 1 .. Len(s.players)}

(* index (1-based) of the first player with that client id, 0 if none *)
find_session_player(s, client_id) ==
    IF \E i \in 1 .. Len(s.players) : s.players[i].client_id = client_id
    THEN CHOOSE i \in 1 .. Len(s.players) :
            /\ s.players[i].client_id = client_id
            /\ \A j \in 1 .. Len(s.players) : s.players[j].client_id = client_id => i <= j
    ELSE 0

get_current_question(s) ==
    IF s.current_question < 0 \/ s.current_question >= s.num_questions
    THEN 0
    ELSE s.question_ids[s.current_question + 1]

NewPlayer(client_id, lives) ==
    [client_id |-> client_id, score |-> 0, lives |-> lives,
     correct_answers |-> 0, has_answered |-> FALSE, was_correct |-> FALSE,
     current_answer |-> -1, response_time |-> 0, eliminated |-> FALSE,
     eliminated_at |-> 0, joker_fifty_used |-> FALSE,
     joker_skip_used |-> FALSE, used_skip_this_question |-> FALSE]

(* join_session without its "already a player" test *)
join_result_without_duplicate_test(s, client_id) ==
    IF s.status # "waiting" THEN -1
    ELSE IF Len(s.players) >= s.max_players THEN -2
    ELSE 0

(* join_session: 0 joined, -1 not waiting, -2 full, -3 already a player *)
join_result(s, client_id) ==
    IF s.status # "waiting" THEN -1
    ELSE IF Len(s.players) >= s.max_players THEN -2
    ELSE IF client_id \in PlayerIds(s) THEN -3
    ELSE 0

join_session(s, client_id) ==
    IF join_result(s, client_id) = 0
    THEN [s EXCEPT !.players = Append(@, NewPlayer(client_id, s.initial_lives))]
    ELSE s

(* the Sessions a join_session call can leave.  With num_players at
   MAX_PLAYERS_PER_SESSION the new SessionPlayer is written behind the
   players array, over num_players, creator_client_id and what follows them,
   and num_players++ increments what was written there: the player count
   and the creator are then any value *)
join_outcomes(s, client_id) ==
    IF join_result(s, client_id) = 0 /\ Len(s.players) >= MAX_PLAYERS_PER_SESSION
    THEN {[s EXCEPT !.players = SubSeq(Append(s.players,
                                              NewPlayer(client_id, s.initial_lives)), 1, n),
                    !.creator_client_id = creator] :
             n \in 0 .. (MAX_PLAYERS_PER_SESSION + 1),
             creator \in {0, s.creator_client_id}}
    ELSE {join_session(s, client_id)}

RemoveAt(seq, i) ==
    [j \in 1 .. (Len(seq) - 1) |-> IF j < i THEN seq[j] ELSE seq[j + 1]]

(* leave_session, the part under the session mutex *)
leave_session(s, client_id) ==
    LET idx == find_session_player(s, client_id)
        rest == RemoveAt(s.players, idx)
        creator == IF client_id = s.creator_client_id /\ Len(rest) > 0
                   THEN rest[1].client_id ELSE s.creator_client_id
    IN IF idx = 0 THEN s
       ELSE [s EXCEPT !.players = rest,
                      !.creator_client_id = creator,
                      !.status = IF Len(rest) = 0 THEN "finished" ELSE @]

(* leave_session calls end_session after unlocking *)
leave_ends(s, client_id) ==
    /\ find_session_player(s, client_id) # 0
    /\ Len(s.players) = 2
    /\ s.status = "playing"

(* end_session: clients[c].current_session_id = -1 for every player found
   among the first num_clients slots *)
end_session_clients(cl, nc, s) ==
    [i \in Slots |->
        IF i < nc /\ cl[i].id \in PlayerIds(s)
           /\ \A j \in Slots : (j < i) => cl[j].id # cl[i].id
        THEN [cl[i] EXCEPT !.current_session_id = -1]
        ELSE cl[i]]

(***************************************************************************)
(* Questions: selection, checking, scoring (question.c).                   *)
(***************************************************************************)
Matching(themes, difficulty) ==
    {q.id : q \in {b \in Bank : b.difficulty = difficulty /\ b.themes \cap themes # {}}}

(* the sequences shuffle_array + "first num_questions" can produce *)
Selections(ids, n) ==
    {qs \in [1 .. n -> ids] : \A a, b \in 1 .. n : a # b => qs[a] # qs[b]}

(* str_equals folds case before comparing *)
Fold(str) == IF str = "Paris" THEN "paris" ELSE str
str_equals(a, b) == Fold(a) = Fold(b)

check_answer(q, answer_index, text_answer, bool_answer) ==
    CASE q.type = "qcm" -> answer_index = q.correct_answer
      [] q.type = "boolean" -> bool_answer = (q.correct_answer = 1)
      [] OTHER -> \E t \in q.text_answers : str_equals(text_answer, t)

base_points(difficulty) ==
    CASE difficulty = "easy" -> 5 [] difficulty = "medium" -> 10 [] OTHER -> 15

bonus_points(difficulty) ==
    CASE difficulty = "easy" -> 1 [] difficulty = "medium" -> 3 [] OTHER -> 6

(* response_time <= time_limit / 2.0 *)
calculate_points(difficulty, response_time, time_limit) ==
    IF 2 * response_time <= time_limit
    THEN base_points(difficulty) + bonus_points(difficulty)
    ELSE base_points(difficulty)

(***************************************************************************)
(* Request inputs.                                                         *)
(***************************************************************************)
CreateRequests ==
    { [themes |-> {0}, difficulty |-> "easy", nb_q |-> MIN_NB_QUESTIONS,
       t_limit |-> 10, mode |-> "solo", max_p |-> 2, has_lives |-> FALSE, lives |-> 0],
      [themes |-> {0}, difficulty |-> "easy", nb_q |-> MIN_NB_QUESTIONS,
       t_limit |-> 10, mode |-> "battle", max_p |-> 2, has_lives |-> TRUE, lives |-> 1],
      [themes |-> {0}, difficulty |-> "easy", nb_q |-> MIN_NB_QUESTIONS - 1,
       t_limit |-> 10, mode |-> "solo", max_p |-> 2, has_lives |-> FALSE, lives |-> 0],
      [themes |-> {1}, difficulty |-> "hard", nb_q |-> MIN_NB_QUESTIONS,
       t_limit |-> 10, mode |-> "solo", max_p |-> 2, has_lives |-> FALSE, lives |-> 0] }

(* requests that break one guardrail of session/create each *)
GoodCreate ==
    [themes |-> {0}, difficulty |-> "easy", nb_q |-> MIN_NB_QUESTIONS,
     t_limit |-> MIN_TIME_LIMIT, mode |-> "solo", max_p |-> 2,
     has_lives |-> FALSE, lives |-> 0]

RefusedCreateRequests ==
    { [GoodCreate EXCEPT !.nb_q = MAX_NB_QUESTIONS + 1],
      [GoodCreate EXCEPT !.t_limit = MIN_TIME_LIMIT - 1],
      [GoodCreate EXCEPT !.t_limit = MAX_TIME_LIMIT + 1],
      [GoodCreate EXCEPT !.max_p = MIN_MAX_PLAYERS - 1],
      [GoodCreate EXCEPT !.mode = "battle"],
      [GoodCreate EXCEPT !.mode = "battle", !.has_lives = TRUE, !.lives = MIN_LIVES - 1],
      [GoodCreate EXCEPT !.mode = "battle", !.has_lives = TRUE, !.lives = MAX_LIVES + 1] }

(* the answer field is a JSON number, string or boolean; handle_answer
   leaves the other two at -1, "" and false *)
Answers ==
    { [answer_index |-> 2, text_answer |-> "", bool_answer |-> FALSE],
      [answer_index |-> -1, text_answer |-> "Paris", bool_answer |-> FALSE] }

RespTimes == {5}

(* outcomes of "server_elapsed > time_limit + 1": question_start_time is 0
   until the first dispatch, afterwards the answers arrive in time *)
Late(s) == IF s.question_started THEN {FALSE} ELSE {TRUE}
JokerTypes == {"fifty", "skip"}


(***************************************************************************)
(* Connection manager (server.c).                                          *)
(***************************************************************************)
Observe(resp) == IF resp.action \in observed THEN resp ELSE NoResponse
(* a request is dispatched and its response is written in this step *)
Answered(i, resp) ==
    /\ nresp' = [nresp EXCEPT ![i] = 0]
    /\ response' = [response EXCEPT ![i] = Observe(resp)]
(* a request is dispatched and no response is written in this step *)
Pending(i) ==
    /\ nresp' = [nresp EXCEPT ![i] = 1]
    /\ response' = [response EXCEPT ![i] = NoResponse]
(* one more response is written for the request being handled *)
Respond(i, resp) ==
    /\ nresp' = [nresp EXCEPT ![i] = @ - 1]
    /\ response' = [response EXCEPT ![i] = Observe(resp)]
Idle(i) == pc[i] = "idle" /\ clients[i].connected
Goto(i, label) == pc' = [pc EXCEPT ![i] = label]
(* the handler returns to client_handler's read loop; its Session* dies *)
Return(i) ==
    /\ pc' = [pc EXCEPT ![i] = "idle"]
    /\ hsess' = [hsess EXCEPT ![i] = -1]

accept_client ==
    /\ num_clients < MAX_CLIENTS
    /\ LET free == {i \in Slots : ~clients[i].connected}
           slot == IF free # {} THEN CHOOSE i \in free : \A j \in free : i <= j
                   ELSE num_clients
       IN /\ clients' = [clients EXCEPT ![slot] =
                 [id |-> next_client_id, connected |-> TRUE,
                  authenticated |-> FALSE, current_session_id |-> -1]]
          /\ pc' = [pc EXCEPT ![slot] = "idle"]
          /\ hsess' = [hsess EXCEPT ![slot] = -1]
          /\ nresp' = [nresp EXCEPT ![slot] = 0]
          /\ response' = [response EXCEPT ![slot] = NoResponse]
          /\ message_buffer' = [message_buffer EXCEPT ![slot] = << >>]
          /\ expecting_json' = [expecting_json EXCEPT ![slot] = FALSE]
          /\ pending_request' = [pending_request EXCEPT ![slot] = << >>]
    /\ next_client_id' = next_client_id + 1
    /\ num_clients' = num_clients + 1
    /\ UNCHANGED <<removed, sessionVars, starters, num_starts, accounts, observed, lockVars, leftTo,
                   eventVars, datagram, reply>>

(* the "connected = false; num_clients--" tail of disconnect_client *)
CloseClient(cl, i) == [cl EXCEPT ![i].connected = FALSE]

(* end_session's "swap" without the tie-breaks on equal lives *)
swap_by_lives_only(mode, a, b) ==
    IF mode = "battle" THEN a.lives < b.lives ELSE a.score < b.score

(* end_session's "swap": sorted_players[j] goes behind sorted_players[j+1] *)
swap(mode, a, b) ==
    IF mode = "battle"
    THEN \/ a.lives < b.lives
         \/ /\ a.lives = b.lives
            /\ \/ a.eliminated_at < b.eliminated_at
               \/ a.eliminated_at = b.eliminated_at /\ a.score < b.score
    ELSE a.score < b.score

(* its inner loop from index j (1-based) up to last - 1 *)
RECURSIVE inner_loop(_, _, _, _)
inner_loop(mode, sp, j, last) ==
    IF j >= last THEN sp
    ELSE inner_loop(mode,
                    IF swap(mode, sp[j], sp[j + 1])
                    THEN [sp EXCEPT ![j] = sp[j + 1], ![j + 1] = sp[j]]
                    ELSE sp,
                    j + 1, last)

(* its outer loop from pass i (0-based) on *)
RECURSIVE outer_loop(_, _, _)
outer_loop(mode, sp, i) ==
    IF i >= Len(sp) - 1 THEN sp
    ELSE outer_loop(mode, inner_loop(mode, sp, 1, Len(sp) - i), i + 1)

sorted_players(s) == outer_loop(s.mode, s.players, 0)

(* the ranking array of session/finished, a player written by client id *)
final_ranking(s) ==
    [k \in 1 .. Len(s.players) |->
        [rank |-> k,
         client_id |-> sorted_players(s)[k].client_id,
         score |-> sorted_players(s)[k].score,
         lives |-> sorted_players(s)[k].lives,
         eliminated_at |-> sorted_players(s)[k].eliminated_at]]

(* the winner field: sorted_players[0], which is uninitialised memory when
   the session has no player; 0 stands for no winner field *)
winners(s) ==
    IF s.mode # "battle" THEN {0}
    ELSE IF Len(s.players) = 0 THEN ClientIds \cup {0}
    ELSE {sorted_players(s)[1].client_id}

(* end_session on slot sl; closing: the caller is disconnect_client of slot i,
   which goes on to clear its connected flag *)
EndSession(sl, i, closing) ==
    LET s == sessions[sl]
        cl == end_session_clients(clients, num_clients, s)
    IN /\ sessions' = [sessions EXCEPT ![sl].status = "finished"]
       /\ clients' = IF closing THEN CloseClient(cl, i) ELSE cl
       /\ finSent' = [finSent EXCEPT ![sl] =
              [c \in ClientIds |->
                  IF c \in PlayerIds(s) /\ send_to_client(clients, num_clients, c)
                  THEN Bump(finSent[sl][c]) ELSE finSent[sl][c]]]
       /\ endMembers' = [endMembers EXCEPT ![sl] =
              IF s.status # "finished" THEN PlayerIds(s) ELSE @]
       /\ IF "session/finished" \in observed
          THEN \E w \in winners(s) :
                  ranking' = [ranking EXCEPT ![sl] =
                                 [winner |-> w, ranking |-> final_ranking(s)]]
          ELSE UNCHANGED ranking

(* leave_session's notification loop: the clients session/player/left is
   written to *)
left_recipients(s, client_id) ==
    {c \in PlayerIds(leave_session(s, client_id)) : send_to_client(clients, num_clients, c)}

(* disconnect_client up to the return of leave_session's critical section *)
disconnect_client(i) ==
    /\ Idle(i)
    /\ LET c == clients[i]
           sl == IF c.current_session_id > 0
                 THEN find_session(sessions, c.current_session_id) ELSE -1
       IN IF sl # -1
          THEN /\ sessions' = [sessions EXCEPT ![sl] = leave_session(@, c.id)]
               /\ leftTo' = IF /\ "session/player/left" \in observed
                               /\ find_session_player(sessions[sl], c.id) # 0
                            THEN [leftTo EXCEPT ![sl] = left_recipients(sessions[sl], c.id)]
                            ELSE leftTo
               /\ IF leave_ends(sessions[sl], c.id)
                  THEN /\ Goto(i, "leave_end")
                       /\ hsess' = [hsess EXCEPT ![i] = sl]
                       /\ UNCHANGED <<clients, num_clients>>
                  ELSE /\ Goto(i, "none")
                       /\ clients' = CloseClient(clients, i)
                       /\ num_clients' = num_clients - 1
                       /\ UNCHANGED hsess
          ELSE /\ Goto(i, "none")
               /\ clients' = CloseClient(clients, i)
               /\ num_clients' = num_clients - 1
               /\ UNCHANGED <<sessions, hsess, leftTo>>
    /\ UNCHANGED <<removed, next_client_id, num_sessions, next_session_id, starters, num_starts,
                   accounts, observed, lockVars, wireVars, nresp, response, eventVars>>

(* leave_session's call of end_session, then the rest of disconnect_client *)
disconnect_end_session(i) ==
    /\ pc[i] = "leave_end"
    /\ EndSession(hsess[i], i, TRUE)
    /\ num_clients' = num_clients - 1
    /\ pc' = [pc EXCEPT ![i] = "none"]
    /\ hsess' = [hsess EXCEPT ![i] = -1]
    /\ UNCHANGED <<removed, next_client_id, num_sessions, next_session_id, starters,
                   num_starts, accounts, observed, lockVars, leftTo, wireVars, lastPlayer, newTo,
                   nresp, response, newSent, resSent, accepted, gained>>

(***************************************************************************)
(* Request dispatcher (handle_request) and the one-step handlers.          *)
(***************************************************************************)
OneStep(i, resp) ==
    /\ Answered(i, resp)
    /\ UNCHANGED <<removed, clientVars, sessionVars, pc, hsess, starters, num_starts, accounts,
                   observed, lockVars, leftTo, wireVars, eventVars>>

(* unparsable header, unknown method, or a JSON endpoint without a body *)
send_bad_request(i) == Idle(i) /\ OneStep(i, send_error("", 400, "Bad request"))

(* unknown endpoint *)
send_unknown_error(i) == Idle(i) /\ OneStep(i, send_error("", 520, "Unknown Error"))

handle_get_themes(i) == Idle(i) /\ OneStep(i, Json("themes/list", 200, "ok"))

handle_get_sessions(i) == Idle(i) /\ OneStep(i, Json("sessions/list", 200, "ok"))

handle_register(i, pseudo, password) ==
    /\ Idle(i)
    /\ accounts' = IF register_result(accounts, pseudo) = 0
                   THEN register_player(accounts, pseudo, password)
                   ELSE accounts
    /\ Answered(i, IF register_result(accounts, pseudo) = 0
                   THEN Json("player/register", 201, "player registered successfully")
                   ELSE Json("player/register", 409, "pseudo already exists"))
    /\ UNCHANGED <<removed, clientVars, sessionVars, pc, hsess, starters, num_starts,
                   observed, lockVars, leftTo, wireVars, eventVars>>

handle_login(i, pseudo, password) ==
    /\ Idle(i)
    /\ clients' = IF login_result(accounts, pseudo, password) = 0
                  THEN [clients EXCEPT ![i].authenticated = TRUE]
                  ELSE clients
    /\ Answered(i, IF login_result(accounts, pseudo, password) = 0
                   THEN Json("player/login", 200, "login successful")
                   ELSE Json("player/login", 401, "invalid credentials"))
    /\ UNCHANGED <<removed, num_clients, next_client_id, sessionVars, pc, hsess,
                   starters, num_starts, accounts, observed, lockVars, leftTo, wireVars, eventVars>>

(***************************************************************************)
(* The read loop of client_handler.  A chunk is what one recv returns: 1   *)
(* to MAX_MESSAGE_LEN - 1 bytes.  The lines of the model are too short to  *)
(* spell a request: a line that starts with the byte G stands for          *)
(* "GET themes/list", one that starts with P for a line that starts with   *)
(* "POST " and names an endpoint that takes a body; no line holds a '{'.   *)
(***************************************************************************)
NL == 10
Bytes == {NL, 71, 80, 120}
Chunks ==
    UNION {[1 .. n -> Bytes] : n \in 1 .. (MAX_MESSAGE_LEN - 1)}

(* strchr: the index of the first c in str, 0 if there is none *)
strchr(str, c) ==
    IF \E k \in 1 .. Len(str) : str[k] = c
    THEN CHOOSE k \in 1 .. Len(str) : str[k] = c /\ \A j \in 1 .. (k - 1) : str[j] # c
    ELSE 0

(* "Append to message buffer": the chunk is appended if it fits in
   message_buffer[MAX_MESSAGE_LEN * 2], and left out otherwise *)
append_chunk(buf, chunk) ==
    IF Len(buf) + Len(chunk) < MAX_MESSAGE_LEN * 2 - 1 THEN buf \o chunk ELSE buf

(* handle_request on a request of the read loop: its response *)
request_response(request) ==
    IF request[1] = 71 THEN Json("themes/list", 200, "ok")
    ELSE send_error("", 400, "Bad request")

(* the while (strchr(message_buffer, '\n')) loop on the locals in st; out
   collects the responses of the requests it hands to handle_request *)
RECURSIVE read_lines(_)
read_lines(st) ==
    LET nl == strchr(st.message_buffer, NL)
        line == SubSeq(st.message_buffer, 1, nl - 1)
        rest == [st EXCEPT !.message_buffer = SubSeq(@, nl + 1, Len(@))]
    IN IF nl = 0 THEN st
       ELSE IF line = << >> THEN read_lines(rest)
       ELSE IF st.expecting_json
       THEN read_lines([rest EXCEPT
                !.out = Append(@, request_response(st.pending_request \o <<NL>> \o line)),
                !.expecting_json = FALSE,
                !.pending_request = << >>])
       ELSE IF line[1] = 80
       THEN read_lines([rest EXCEPT
                !.pending_request = strncpy(line, MAX_MESSAGE_LEN - 1),
                !.expecting_json = TRUE])
       ELSE read_lines([rest EXCEPT !.out = Append(@, request_response(line))])

(* one turn of client_handler's outer loop: recv returned chunk *)
recv(i, chunk) ==
    /\ Idle(i)
    /\ LET st == read_lines([message_buffer |-> append_chunk(message_buffer[i], chunk),
                             expecting_json |-> expecting_json[i],
                             pending_request |-> pending_request[i],
                             out |-> << >>])
       IN /\ message_buffer' = [message_buffer EXCEPT ![i] = st.message_buffer]
          /\ expecting_json' = [expecting_json EXCEPT ![i] = st.expecting_json]
          /\ pending_request' = [pending_request EXCEPT ![i] = st.pending_request]
          /\ IF st.out = << >> THEN UNCHANGED <<nresp, response>>
             ELSE Answered(i, st.out[Len(st.out)])
    /\ UNCHANGED <<removed, clientVars, sessionVars, pc, hsess, starters, num_starts, accounts,
                   observed, lockVars, leftTo, eventVars, datagram, reply>>

(***************************************************************************)
(* UDP discovery (discover.c).  Payloads are sequences of byte values.     *)
(***************************************************************************)
(* "looking for quiznet servers" *)
DISCOVERY_REQUEST ==
    <<108, 111, 111, 107, 105, 110, 103, 32, 102, 111, 114, 32, 113, 117, 105, 122,
      110, 101, 116, 32, 115, 101, 114, 118, 101, 114, 115>>

(* "hello i'm a quiznet server:" *)
DISCOVERY_HELLO ==
    <<104, 101, 108, 108, 111, 32, 105, 39, 109, 32, 97, 32, 113, 117, 105, 122,
      110, 101, 116, 32, 115, 101, 114, 118, 101, 114, 58>>

(* ServerState.server_name and tcp_port as main leaves them: the name
   "QuizNet #0042" and the default port *)
server_name == <<81, 117, 105, 122, 78, 101, 116, 32, 35, 48, 48, 52, 50>>
DEFAULT_TCP_PORT == 5556
tcp_port == DEFAULT_TCP_PORT
RESPONSE_SIZE == 256

(* the string a char array holds: its bytes before the first 0 *)
cstr(buf) == IF strchr(buf, 0) = 0 THEN buf ELSE SubSeq(buf, 1, strchr(buf, 0) - 1)

(* strcmp: 0 iff the two strings are equal *)
strcmp(a, b) == IF cstr(a) = cstr(b) THEN 0 ELSE 1

(* printf's %d of a number that is not negative *)
RECURSIVE decimal(_)
decimal(n) == IF n < 10 THEN <<48 + n>> ELSE Append(decimal(n \div 10), 48 + (n % 10))

(* snprintf(response, sizeof(response), "hello i'm a quiznet server:%s:%d", ..) *)
discovery_response ==
    strncpy(DISCOVERY_HELLO \o cstr(server_name) \o <<58>> \o decimal(tcp_port),
            RESPONSE_SIZE - 1)

(* one turn of udp_discovery_handler's loop: recvfrom returned the first
   sizeof(buffer) - 1 bytes of payload, sent from addr *)
udp_discovery_handler(addr, payload) ==
    LET buffer == strncpy(payload, RESPONSE_SIZE - 1)
    IN /\ datagram' = [addr |-> addr, payload |-> payload]
       /\ reply' = IF Len(buffer) > 0 /\ strcmp(buffer, DISCOVERY_REQUEST) = 0
                   THEN [addr |-> addr, payload |-> discovery_response]
                   ELSE NoDatagram
       /\ UNCHANGED <<removed, clientVars, sessionVars, pc, hsess, starters, num_starts,
                      accounts, nresp, response, observed, lockVars, leftTo, eventVars,
                      message_buffer, expecting_json, pending_request>>

(***************************************************************************)
(* session/create                                                          *)
(***************************************************************************)
(* handle_create_session's tests without those of the time limit *)
ValidCreate_without_time_limit(req) ==
    /\ (req.mode = "battle") =>
          (req.has_lives /\ req.lives >= MIN_LIVES /\ req.lives <= MAX_LIVES)
    /\ ~ (req.nb_q < MIN_NB_QUESTIONS \/ req.nb_q > MAX_NB_QUESTIONS
          \/ req.max_p < MIN_MAX_PLAYERS)

ValidCreate(req) ==
    /\ (req.mode = "battle") =>
          (req.has_lives /\ req.lives >= MIN_LIVES /\ req.lives <= MAX_LIVES)
    /\ ~ (req.nb_q < MIN_NB_QUESTIONS \/ req.nb_q > MAX_NB_QUESTIONS
          \/ req.t_limit < MIN_TIME_LIMIT \/ req.t_limit > MAX_TIME_LIMIT
          \/ req.max_p < MIN_MAX_PLAYERS)

(* the message of handle_create_session's 400 for a request that is not
   ValidCreate *)
create_refusal(req) ==
    IF req.mode = "battle" /\ ~req.has_lives THEN "lives required for battle mode"
    ELSE IF req.mode = "battle" /\ (req.lives < MIN_LIVES \/ req.lives > MAX_LIVES)
    THEN "lives must be between 1 and 10"
    ELSE "invalid parameters"

(* the slot create_session picks: the first finished or never used one *)
create_slot(ss) ==
    LET free == {s \in SSlots : ss[s].status = "finished" \/ ss[s].id = 0}
    IN IF free = {} THEN -1 ELSE CHOOSE s \in free : \A t \in free : s <= t

(* the Session create_session leaves in the slot when selection succeeds *)
create_session(req, id, creator, qs) ==
    [id |-> id, status |-> "waiting", mode |-> req.mode,
     difficulty |-> req.difficulty, num_questions |-> req.nb_q,
     time_limit |-> req.t_limit,
     initial_lives |-> IF req.mode = "battle" THEN req.lives ELSE 0,
     max_players |-> req.max_p, players |-> << >>,
     creator_client_id |-> creator, question_ids |-> qs,
     current_question |-> -1, question_started |-> FALSE]

(* the slot after a failed selection, had create_session not cleared it *)
create_session_failed_without_memset(id) ==
    [ZeroSession EXCEPT !.id = id, !.current_question = -1]

(* the slot create_session leaves when the selection fails: memset to 0 *)
create_session_failed(id) == ZeroSession

(* the slot holds a new session: its event history starts empty *)
ResetEvents(sl) ==
    /\ newSent' = [newSent EXCEPT ![sl] = ZeroCounts]
    /\ resSent' = [resSent EXCEPT ![sl] = ZeroCounts]
    /\ finSent' = [finSent EXCEPT ![sl] = ZeroFin]
    /\ endMembers' = [endMembers EXCEPT ![sl] = {}]
    /\ accepted' = [accepted EXCEPT ![sl] = ZeroAccepted]
    /\ gained' = [gained EXCEPT ![sl] = ZeroFin]
    /\ lastPlayer' = [lastPlayer EXCEPT ![sl] = 0]
    /\ newTo' = [newTo EXCEPT ![sl] = {}]
    /\ ranking' = [ranking EXCEPT ![sl] = NoRanking]

handle_create_session(i, req) ==
    /\ Idle(i)
    /\ LET sl == create_slot(sessions)
           ids == Matching(req.themes, req.difficulty)
       IN IF ~clients[i].authenticated
          THEN /\ Answered(i, send_error("session/create", 401, "not authenticated"))
               /\ UNCHANGED <<sessionVars, pc, hsess, eventVars>>
          ELSE IF ~ValidCreate(req)
          THEN /\ Answered(i, send_error("session/create", 400, create_refusal(req)))
               /\ UNCHANGED <<sessionVars, pc, hsess, eventVars>>
          ELSE IF num_sessions >= MAX_SESSIONS \/ sl = -1
          THEN /\ Answered(i, send_error("session/create", 400,
                                         "not enough questions matching criteria"))
               /\ UNCHANGED <<sessionVars, pc, hsess, eventVars>>
          ELSE IF Cardinality(ids) < req.nb_q
          THEN /\ sessions' = [sessions EXCEPT ![sl] =
                                create_session_failed(next_session_id)]
               /\ next_session_id' = next_session_id + 1
               /\ ResetEvents(sl)
               /\ Answered(i, send_error("session/create", 400,
                                         "not enough questions matching criteria"))
               /\ UNCHANGED <<num_sessions, pc, hsess>>
          ELSE /\ \E qs \in Selections(ids, req.nb_q) :
                     sessions' = [sessions EXCEPT ![sl] =
                         create_session(req, next_session_id, clients[i].id, qs)]
               /\ next_session_id' = next_session_id + 1
               /\ num_sessions' = num_sessions + 1
               /\ ResetEvents(sl)
               /\ Goto(i, "create_join")
               /\ hsess' = [hsess EXCEPT ![i] = sl]
               /\ Pending(i)
    /\ UNCHANGED <<removed, clientVars, starters, num_starts, accounts, observed, lockVars,
                   leftTo, wireVars>>

(* "Add creator to session": join_session, its result ignored, then
   current_session_id = session->id and the 201 response *)
create_join(i) ==
    /\ pc[i] = "create_join"
    /\ LET sl == hsess[i]
       IN /\ \E t \in join_outcomes(sessions[sl], clients[i].id) :
                sessions' = [sessions EXCEPT ![sl] = t]
          /\ clients' = [clients EXCEPT ![i].current_session_id = sessions[sl].id]
    /\ Return(i)
    /\ Respond(i, Json("session/create", 201, "session created"))
    /\ UNCHANGED <<removed, num_clients, next_client_id, num_sessions, next_session_id,
                   starters, num_starts, accounts, observed, lockVars, leftTo, wireVars, eventVars>>

(***************************************************************************)
(* session/join                                                            *)
(***************************************************************************)
handle_join_session(i, session_id) ==
    /\ Idle(i)
    /\ LET sl == find_session(sessions, session_id)
       IN IF ~clients[i].authenticated \/ sl = -1
          THEN /\ Answered(i, IF ~clients[i].authenticated
                              THEN send_error("session/join", 401, "not authenticated")
                              ELSE send_error("session/join", 404, "session not found"))
               /\ UNCHANGED <<sessions, pc, hsess>>
          ELSE IF join_result(sessions[sl], clients[i].id) # 0
          THEN /\ Answered(i, IF join_result(sessions[sl], clients[i].id) = -2
                              THEN send_error("session/join", 403, "session is full")
                              ELSE send_error("session/join", 400, "cannot join session"))
               /\ UNCHANGED <<sessions, pc, hsess>>
          ELSE /\ \E t \in join_outcomes(sessions[sl], clients[i].id) :
                     sessions' = [sessions EXCEPT ![sl] = t]
               /\ Goto(i, "join_set")
               /\ hsess' = [hsess EXCEPT ![i] = sl]
               /\ Pending(i)
    /\ UNCHANGED <<removed, clientVars, num_sessions, next_session_id, starters, num_starts,
                   accounts, observed, lockVars, leftTo, wireVars, eventVars>>

(* current_session_id = session->id and the join response *)
join_set(i) ==
    /\ pc[i] = "join_set"
    /\ clients' = [clients EXCEPT ![i].current_session_id = sessions[hsess[i]].id]
    /\ Return(i)
    /\ Respond(i, Json("session/join", 201, "session joined"))
    /\ UNCHANGED <<removed, num_clients, next_client_id, sessionVars, starters, num_starts,
                   accounts, observed, lockVars, leftTo, wireVars, eventVars>>

(***************************************************************************)
(* session/start and the detached start thread                             *)
(***************************************************************************)
(* handle_start_session: the statut of the refusal, 0 if the thread is spawned *)
start_check(cl, ss) ==
    LET sl == find_session(ss, cl.current_session_id)
    IN IF cl.current_session_id < 0 THEN 400
       ELSE IF sl = -1 THEN 404
       ELSE IF ss[sl].creator_client_id # cl.id THEN 403
       ELSE IF Len(ss[sl].players) < 2 THEN 400
       ELSE 0

(* the message that goes with it *)
start_refusal(cl, ss) ==
    CASE start_check(cl, ss) = 404 -> "session not found"
      [] start_check(cl, ss) = 403 -> "only creator can start session"
      [] cl.current_session_id < 0 -> "not in a session"
      [] OTHER -> "need at least 2 players"

handle_start_session(i) ==
    /\ Idle(i)
    /\ IF start_check(clients[i], sessions) # 0
       THEN /\ Answered(i, send_error("session/start", start_check(clients[i], sessions),
                                      start_refusal(clients[i], sessions)))
            /\ UNCHANGED <<starters, num_starts>>
       ELSE /\ LET sl == find_session(sessions, clients[i].current_session_id)
               IN starters' = [starters EXCEPT
                      ![sl].start = @ + 1,
                      ![sl].by = IF observed \cap Actions # {}
                                 THEN @ \cup {clients[i].id} ELSE @]
            /\ num_starts' = num_starts + 1
            /\ Pending(i)
    /\ UNCHANGED <<removed, clientVars, sessionVars, pc, hsess, accounts, observed,
                   lockVars, leftTo, wireVars, eventVars>>

(* the score of client_id went from that in s to that in t *)
Gain(sl, s, t, client_id) ==
    gained' = IF observed \cap Actions # {} /\ find_session_player(s, client_id) # 0
              THEN [gained EXCEPT ![sl][client_id] =
                       @ + t.players[find_session_player(t, client_id)].score
                         - s.players[find_session_player(s, client_id)].score]
              ELSE gained

(* a question index of sl is set *)
NewIndex(sl) == gained' = [gained EXCEPT ![sl] = ZeroFin]

(* the requesters of the start threads left when one of them has run *)
Remaining(sl) == IF starters[sl].start = 1 THEN {} ELSE starters[sl].by

(* start_session up to its unlock: the caller then sleeps 3 seconds *)
start_session(sl) ==
    /\ starters[sl].start > 0
    /\ IF Len(sessions[sl].players) < 2
       THEN /\ starters' = [starters EXCEPT ![sl].start = @ - 1,
                                            ![sl].by = Remaining(sl)]
            /\ UNCHANGED <<sessions, gained>>
       ELSE /\ starters' = [starters EXCEPT ![sl].start = @ - 1, ![sl].sleep = @ + 1,
                                            ![sl].by = Remaining(sl)]
            /\ sessions' = [sessions EXCEPT ![sl].status = "playing",
                                            ![sl].current_question = 0]
            /\ NewIndex(sl)
    /\ UNCHANGED <<removed, clientVars, num_sessions, next_session_id, pc, hsess,
                   num_starts, accounts, observed, lockVars, leftTo, wireVars, lastPlayer, newTo,
                   ranking, nresp, response, newSent, resSent, finSent, endMembers,
                   accepted>>

(* send_question_to_all: the Session it leaves *)
send_question_to_all(s) ==
    IF get_current_question(s) = 0 THEN s
    ELSE [s EXCEPT
            !.players = [k \in 1 .. Len(s.players) |->
                [s.players[k] EXCEPT !.has_answered = FALSE,
                                     !.was_correct = FALSE,
                                     !.current_answer = -1,
                                     !.response_time = 0,
                                     !.used_skip_this_question = FALSE]],
            !.question_started = TRUE]

(* the players send_question_to_all writes question/new for *)
question_recipients(s) ==
    {s.players[k].client_id : k \in {n \in 1 .. Len(s.players) : ~s.players[n].eliminated}}

(* the question/new broadcast of send_question_to_all on slot sl *)
Dispatch(sl) ==
    /\ sessions' = [sessions EXCEPT ![sl] = send_question_to_all(@)]
    /\ newSent' = IF get_current_question(sessions[sl]) = 0 THEN newSent
                  ELSE [newSent EXCEPT ![sl][sessions[sl].current_question] = Bump(@)]
    /\ newTo' = IF get_current_question(sessions[sl]) = 0 \/ "question/new" \notin observed
                THEN newTo
                ELSE [newTo EXCEPT ![sl] = question_recipients(sessions[sl])]

(* the start thread after its sleep: "Send first question" *)
start_first_question(sl) ==
    /\ starters[sl].sleep > 0
    /\ starters' = [starters EXCEPT ![sl].sleep = @ - 1]
    /\ Dispatch(sl)
    /\ UNCHANGED <<removed, clientVars, num_sessions, next_session_id, pc, hsess,
                   num_starts, accounts, observed, lockVars, leftTo, wireVars, lastPlayer, ranking,
                   nresp, response, resSent, finSent, endMembers, accepted, gained>>

(***************************************************************************)
(* question/answer                                                         *)
(***************************************************************************)
handle_answer(i) ==
    /\ Idle(i)
    /\ LET sl == find_session(sessions, clients[i].current_session_id)
       IN IF clients[i].current_session_id < 0 \/ sl = -1
             \/ sessions[sl].status # "playing"
          THEN /\ Answered(i, send_error("question/answer", 400,
                                         IF clients[i].current_session_id < 0
                                         THEN "not in a session"
                                         ELSE "session not playing"))
               /\ UNCHANGED <<pc, hsess>>
          ELSE /\ Goto(i, "answer")
               /\ hsess' = [hsess EXCEPT ![i] = sl]
               /\ Pending(i)
    /\ UNCHANGED <<removed, clientVars, sessionVars, starters, num_starts, accounts,
                   observed, lockVars, leftTo, wireVars, eventVars>>

(* handle_answer's acknowledgment *)
answer_received == Json("question/answer", 200, "answer received")

AllAnswered(s) ==
    \A k \in 1 .. Len(s.players) :
        s.players[k].eliminated \/ s.players[k].has_answered

(* a process_answer that would let an eliminated player answer again *)
answer_rejected_ignoring_elimination(s, client_id) ==
    LET idx == find_session_player(s, client_id)
    IN idx = 0 \/ s.players[idx].has_answered

(* process_answer rejects the answer *)
answer_rejected(s, client_id) ==
    LET idx == find_session_player(s, client_id)
    IN idx = 0 \/ s.players[idx].has_answered \/ s.players[idx].eliminated

(* process_answer under the session mutex; late: server_elapsed > time_limit + 1 *)
process_answer(s, client_id, ans, response_time, late) ==
    LET idx == find_session_player(s, client_id)
        p == s.players[idx]
        rt == IF late THEN s.time_limit + 1 ELSE response_time
        qid == get_current_question(s)
        q == Question(qid)
        correct == qid # 0 /\ check_answer(q, ans.answer_index, ans.text_answer,
                                           ans.bool_answer)
        cur == IF qid # 0 /\ q.type = "boolean"
               THEN (IF ans.bool_answer THEN 1 ELSE 0)
               ELSE ans.answer_index
        points == IF correct THEN calculate_points(q.difficulty, rt, s.time_limit)
                  ELSE 0
    IN IF answer_rejected(s, client_id) THEN s
       ELSE [s EXCEPT !.players[idx] =
                [p EXCEPT !.has_answered = TRUE,
                          !.current_answer = cur,
                          !.response_time = rt,
                          !.score = @ + points,
                          !.correct_answers = IF correct THEN @ + 1 ELSE @,
                          !.was_correct = IF qid # 0 THEN correct ELSE @]]

(* an answer or skip of client_id was accepted for the current index of sl *)
Accept(sl, client_id) ==
    accepted' = IF sessions[sl].current_question \in QIdx
                THEN [accepted EXCEPT
                         ![sl][client_id][sessions[sl].current_question] = TRUE]
                ELSE accepted

answer_step(i, ans, response_time) ==
    /\ pc[i] = "answer"
    /\ LET sl == hsess[i]
           s == sessions[sl]
       IN \E late \in Late(s) :
          LET t == process_answer(s, clients[i].id, ans, response_time, late)
          IN /\ sessions' = [sessions EXCEPT ![sl] = t]
             /\ Gain(sl, s, t, clients[i].id)
             /\ IF answer_rejected(s, clients[i].id)
                THEN UNCHANGED accepted
                ELSE Accept(sl, clients[i].id)
             /\ IF ~answer_rejected(s, clients[i].id) /\ AllAnswered(t)
                THEN Goto(i, "results") /\ UNCHANGED <<nresp, response, hsess>>
                ELSE Return(i) /\ Respond(i, answer_received)
    /\ UNCHANGED <<removed, clientVars, num_sessions, next_session_id, starters, num_starts,
                   accounts, observed, lockVars, leftTo, wireVars, lastPlayer, newTo, ranking,
                   newSent, resSent, finSent, endMembers>>

(***************************************************************************)
(* Results phase (send_question_results)                                   *)
(***************************************************************************)
lose_life(p, question_number) ==
    [p EXCEPT !.lives = @ - 1,
              !.eliminated = IF p.lives - 1 <= 0 THEN TRUE ELSE @,
              !.eliminated_at = IF p.lives - 1 <= 0 THEN question_number ELSE @]

(* "correct" as the penalty loop recomputes it *)
penalty_correct(q, p) ==
    IF q.type \in {"qcm", "boolean"} THEN p.current_answer = q.correct_answer
    ELSE p.has_answered

(* players after the first penalty loop *)
wrong_answer_penalty(s, q) ==
    [k \in 1 .. Len(s.players) |->
        LET p == s.players[k]
        IN IF ~p.eliminated /\ ~p.used_skip_this_question
              /\ ~penalty_correct(q, p) /\ p.has_answered
           THEN lose_life(p, s.current_question + 1)
           ELSE p]

(* last_player_index (1-based, 0 for none): highest response_time above 0
   among the players the loop visits, the lowest index on ties *)
last_player_index(s) ==
    LET cand == {k \in 1 .. Len(s.players) :
                    /\ ~s.players[k].eliminated
                    /\ ~s.players[k].used_skip_this_question
                    /\ s.players[k].has_answered
                    /\ s.players[k].response_time > 0}
    IN IF cand = {} THEN 0
       ELSE CHOOSE k \in cand :
               \A j \in cand :
                   \/ s.players[j].response_time < s.players[k].response_time
                   \/ (s.players[j].response_time = s.players[k].response_time /\ k <= j)

battle_penalties(s, q) ==
    LET ps == wrong_answer_penalty(s, q)
        last == last_player_index(s)
    IN IF last = 0 THEN ps
       ELSE IF ~ps[last].eliminated /\ q.type \in {"qcm", "boolean"}
               /\ ps[last].current_answer = q.correct_answer
       THEN [ps EXCEPT ![last] = lose_life(@, s.current_question + 1)]
       ELSE ps

(* the player question/results names lastPlayer (by client id; the message
   carries the pseudo), 0 if it names none *)
last_player_reported(s) ==
    IF s.mode = "battle" /\ last_player_index(s) # 0
    THEN s.players[last_player_index(s)].client_id
    ELSE 0

(* the points of a player in question/results *)
reported_points(s, p) ==
    IF p.was_correct
    THEN calculate_points(Question(get_current_question(s)).difficulty,
                          p.response_time, s.time_limit)
    ELSE 0

(* the Session send_question_results leaves *)
send_question_results(s) ==
    LET qid == get_current_question(s)
    IN IF qid = 0 \/ s.mode # "battle" THEN s
       ELSE [s EXCEPT !.players = battle_penalties(s, Question(qid))]

results_step(i) ==
    /\ pc[i] = "results"
    /\ LET sl == hsess[i]
           s == sessions[sl]
       IN IF get_current_question(s) = 0
          THEN /\ Return(i)
               /\ Respond(i, answer_received)
               /\ UNCHANGED <<sessions, resSent, lastPlayer>>
          ELSE /\ sessions' = [sessions EXCEPT ![sl] = send_question_results(s)]
               /\ resSent' = [resSent EXCEPT ![sl][s.current_question] = Bump(@)]
               /\ lastPlayer' = IF "question/results" \in observed
                                THEN [lastPlayer EXCEPT ![sl] = last_player_reported(s)]
                                ELSE lastPlayer
               /\ Goto(i, "decide")
               /\ UNCHANGED <<nresp, response, hsess>>
    /\ UNCHANGED <<removed, clientVars, num_sessions, next_session_id, starters, num_starts,
                   accounts, observed, lockVars, leftTo, wireVars, newTo, ranking, newSent, finSent,
                   endMembers, accepted, gained>>

ActivePlayers(s) == {k \in 1 .. Len(s.players) : ~s.players[k].eliminated}

(* the unlocked reads that follow the results broadcast *)
session_over(s) ==
    \/ s.mode = "battle" /\ Cardinality(ActivePlayers(s)) <= 1
    \/ s.current_question + 1 >= s.num_questions

decide_step(i) ==
    /\ pc[i] = "decide"
    /\ IF session_over(sessions[hsess[i]])
       THEN Goto(i, "end")
       ELSE Goto(i, "sleep")
    /\ UNCHANGED <<removed, clientVars, sessionVars, hsess, starters, num_starts, accounts,
                   observed, lockVars, leftTo, wireVars, nresp,
                   response, eventVars>>

(* end_session called from send_question_results, then the acknowledgment *)
end_step(i) ==
    /\ pc[i] = "end"
    /\ EndSession(hsess[i], i, FALSE)
    /\ Return(i)
    /\ Respond(i, answer_received)
    /\ UNCHANGED <<removed, num_clients, next_client_id, num_sessions, next_session_id,
                   starters, num_starts, accounts, observed, lockVars, leftTo, wireVars, lastPlayer,
                   newTo, newSent, resSent, accepted, gained>>

(* after the 5 second sleep: advance_to_next_question's critical section *)
advance_to_next_question(i) ==
    /\ pc[i] = "sleep"
    /\ sessions' = [sessions EXCEPT ![hsess[i]].current_question = @ + 1]
    /\ NewIndex(hsess[i])
    /\ Goto(i, "dispatch")
    /\ UNCHANGED <<removed, clientVars, num_sessions, next_session_id, hsess, starters,
                   num_starts, accounts, observed, lockVars, leftTo, wireVars, lastPlayer, newTo,
                   ranking, nresp, response, newSent, resSent, finSent, endMembers,
                   accepted>>

(* advance_to_next_question's send_question_to_all, then the acknowledgment *)
dispatch_step(i) ==
    /\ pc[i] = "dispatch"
    /\ Dispatch(hsess[i])
    /\ Return(i)
    /\ Respond(i, answer_received)
    /\ UNCHANGED <<removed, clientVars, num_sessions, next_session_id, starters, num_starts,
                   accounts, observed, lockVars, leftTo, wireVars, lastPlayer, ranking, resSent,
                   finSent, endMembers, accepted, gained>>

(***************************************************************************)
(* joker/use                                                               *)
(***************************************************************************)
(* use_joker_fifty: 0 ok, -1 used or answered, -2 no multi-choice question *)
(* use_joker_fifty without its test of joker_fifty_used *)
use_joker_fifty_result_without_used_test(s, client_id) ==
    LET idx == find_session_player(s, client_id)
    IN IF idx = 0 \/ s.players[idx].has_answered
       THEN -1
       ELSE IF get_current_question(s) = 0
               \/ Question(get_current_question(s)).type # "qcm"
       THEN -2
       ELSE 0

use_joker_fifty_result(s, client_id) ==
    LET idx == find_session_player(s, client_id)
    IN IF idx = 0 \/ s.players[idx].joker_fifty_used \/ s.players[idx].has_answered
       THEN -1
       ELSE IF get_current_question(s) = 0
               \/ Question(get_current_question(s)).type # "qcm"
       THEN -2
       ELSE 0

use_joker_fifty(s, client_id) ==
    IF use_joker_fifty_result(s, client_id) = 0
    THEN [s EXCEPT !.players[find_session_player(s, client_id)].joker_fifty_used = TRUE]
    ELSE s

use_joker_skip_result(s, client_id) ==
    LET idx == find_session_player(s, client_id)
    IN IF idx = 0 \/ s.players[idx].joker_skip_used \/ s.players[idx].has_answered
       THEN -1 ELSE 0

use_joker_skip(s, client_id) ==
    IF use_joker_skip_result(s, client_id) = 0
    THEN [s EXCEPT !.players[find_session_player(s, client_id)] =
            [@ EXCEPT !.joker_skip_used = TRUE,
                      !.has_answered = TRUE,
                      !.used_skip_this_question = TRUE,
                      !.current_answer = SKIP_ANSWER]]
    ELSE s

(* the pairs use_joker_fifty may leave in removed_answers: two of the three
   wrong indices, as shuffle_array orders them *)
Removable(q) == {r \in SUBSET ((0 .. 3) \ {q.correct_answer}) : Cardinality(r) = 2}

(* handle_joker's refusal for the joker named type, "" when it grants it *)
joker_refusal(cl, ss, type) ==
    LET sl == find_session(ss, cl.current_session_id)
    IN IF cl.current_session_id < 0 THEN "not in a session"
       ELSE IF sl = -1 \/ ss[sl].status # "playing" THEN "session not playing"
       ELSE IF find_session_player(ss[sl], cl.id) = 0 THEN "player not found"
       ELSE IF type = "fifty"
       THEN (IF use_joker_fifty_result(ss[sl], cl.id) # 0
             THEN "joker not available" ELSE "")
       ELSE IF type = "skip"
       THEN (IF use_joker_skip_result(ss[sl], cl.id) # 0
             THEN "joker not available" ELSE "")
       ELSE "unknown joker type"

(* handle_joker up to the return of use_joker_fifty or use_joker_skip *)
handle_joker(i, type) ==
    /\ Idle(i)
    /\ LET sl == find_session(sessions, clients[i].current_session_id)
           refusal == joker_refusal(clients[i], sessions, type)
       IN IF refusal # ""
          THEN /\ Answered(i, send_error("joker/use", 400, refusal))
               /\ UNCHANGED <<sessions, pc, hsess, removed, accepted>>
          ELSE IF type = "fifty"
          THEN /\ sessions' = [sessions EXCEPT ![sl] = use_joker_fifty(@, clients[i].id)]
               /\ \E r \in Removable(Question(get_current_question(sessions[sl]))) :
                     removed' = [removed EXCEPT ![i] = r]
               /\ Goto(i, "fifty_reply")
               /\ hsess' = [hsess EXCEPT ![i] = sl]
               /\ Pending(i)
               /\ UNCHANGED accepted
          ELSE /\ sessions' = [sessions EXCEPT ![sl] = use_joker_skip(@, clients[i].id)]
               /\ Accept(sl, clients[i].id)
               /\ Answered(i, Json("joker/use", 200, "question skipped"))
               /\ UNCHANGED <<pc, hsess, removed>>
    /\ UNCHANGED <<clientVars, num_sessions, next_session_id, starters, num_starts,
                   accounts, observed, lockVars, leftTo, wireVars, lastPlayer, newTo, ranking,
                   newSent, resSent, finSent, endMembers, gained>>

(* the remainingAnswers handle_joker builds: the options of the question at
   session->question_ids[session->current_question], read without the
   session mutex, at the indices not in removed; none if no question of the
   bank has that id *)
remaining_answers(s, r) ==
    LET qid == IF s.current_question + 1 \in 1 .. Len(s.question_ids)
               THEN s.question_ids[s.current_question + 1] ELSE 0
        q == Question(qid)
    IN IF qid = 0 THEN << >>
       ELSE LET keep == (0 .. 3) \ r
                lo == CHOOSE k \in keep : \A j \in keep : k <= j
                hi == CHOOSE k \in keep : \A j \in keep : j <= k
            IN <<q.answers[lo], q.answers[hi]>>

(* handle_joker after use_joker_fifty returned 0: the response *)
fifty_reply(i) ==
    /\ pc[i] = "fifty_reply"
    /\ Respond(i, [Json("joker/use", 200, "joker activated") EXCEPT
                      !.remainingAnswers = remaining_answers(sessions[hsess[i]],
                                                             removed[i])])
    /\ removed' = [removed EXCEPT ![i] = {}]
    /\ Return(i)
    /\ UNCHANGED <<clientVars, sessionVars, starters, num_starts, accounts, observed, lockVars,
                   leftTo, wireVars, eventVars>>

(***************************************************************************)
(* Specification: MaxClientId connections, MaxSessionId sessions and       *)
(* MaxStartThreads start threads, every request the protocol knows.        *)
(***************************************************************************)
ClientRequest(i) ==
    \/ send_bad_request(i)
    \/ send_unknown_error(i)
    \/ handle_get_themes(i)
    \/ handle_get_sessions(i)
    \/ \E pseudo \in Pseudos : handle_register(i, pseudo, GoodPassword)
    \/ \E pseudo \in Pseudos, password \in {GoodPassword, BadPassword} :
          handle_login(i, pseudo, password)
    \/ \E req \in CreateRequests :
          next_session_id <= MaxSessionId /\ handle_create_session(i, req)
    \/ \E session_id \in 1 .. MaxSessionId : handle_join_session(i, session_id)
    \/ /\ start_check(clients[i], sessions) = 0 => num_starts < MaxStartThreads
       /\ handle_start_session(i)
    \/ handle_answer(i)

HandlerStep(i, answers) ==
    \/ create_join(i)
    \/ join_set(i)
    \/ \E ans \in answers, response_time \in RespTimes : answer_step(i, ans, response_time)
    \/ results_step(i)
    \/ decide_step(i)
    \/ end_step(i)
    \/ advance_to_next_question(i)
    \/ dispatch_step(i)
    \/ disconnect_end_session(i)

StarterStep(sl) ==
    \/ start_session(sl)
    \/ start_first_question(sl)

Next ==
    \/ next_client_id <= MaxClientId /\ accept_client
    \/ \E i \in Slots : disconnect_client(i)
    \/ \E i \in Slots : ClientRequest(i)
    \/ \E i \in Slots : HandlerStep(i, Answers)
    \/ \E sl \in SSlots : StarterStep(sl)

Spec == Init /\ [][Next]_vars

(***************************************************************************)
(* RestartSpec: RestartThreads start threads on a battle session.          *)
(***************************************************************************)
BattleRequests == {req \in CreateRequests : req.mode = "battle"}
NumberAnswers == {ans \in Answers : ans.answer_index >= 0}

RestartRequest(i) ==
    \/ \E pseudo \in Pseudos : handle_register(i, pseudo, GoodPassword)
    \/ \E pseudo \in Pseudos : handle_login(i, pseudo, GoodPassword)
    \/ \E req \in BattleRequests :
          next_session_id <= MaxSessionId /\ handle_create_session(i, req)
    \/ \E session_id \in 1 .. MaxSessionId : handle_join_session(i, session_id)
    \/ /\ start_check(clients[i], sessions) = 0 => num_starts < RestartThreads
       /\ handle_start_session(i)
    \/ handle_answer(i)

RestartNext ==
    \/ next_client_id <= MaxClientId /\ accept_client
    \/ \E i \in Slots : disconnect_client(i)
    \/ \E i \in Slots : RestartRequest(i)
    \/ \E i \in Slots : HandlerStep(i, NumberAnswers)
    \/ \E sl \in SSlots : StarterStep(sl)

RestartSpec == Init /\ [][RestartNext]_vars

(***************************************************************************)
(* LobbySpec: LobbyClientIds connections and LobbySessionIds sessions,     *)
(* none of them started.                                                   *)
(***************************************************************************)
LobbyRequest(i) ==
    \/ \E pseudo \in Pseudos : handle_register(i, pseudo, GoodPassword)
    \/ \E pseudo \in Pseudos : handle_login(i, pseudo, GoodPassword)
    \/ \E req \in CreateRequests :
          next_session_id <= LobbySessionIds /\ handle_create_session(i, req)
    \/ \E session_id \in 1 .. LobbySessionIds : handle_join_session(i, session_id)

LobbyStep(i) ==
    \/ create_join(i)
    \/ join_set(i)

LobbyNext ==
    \/ next_client_id <= LobbyClientIds /\ accept_client
    \/ \E i \in Slots : disconnect_client(i)
    \/ \E i \in Slots : LobbyRequest(i)
    \/ \E i \in Slots : LobbyStep(i)

LobbySpec == Init /\ [][LobbyNext]_vars

(***************************************************************************)
(* TimeoutSpec: one solo session whose threads are scheduled fairly.  The  *)
(* handler and start threads are ordinary pthreads and their sleeps end;   *)
(* nothing obliges a client to send a request.                             *)
(***************************************************************************)
SoloRequests == {req \in CreateRequests : req.mode = "solo" /\ ValidCreate(req)}

TimeoutRequest(i) ==
    \/ \E pseudo \in Pseudos : handle_register(i, pseudo, GoodPassword)
    \/ \E pseudo \in Pseudos : handle_login(i, pseudo, GoodPassword)
    \/ \E req \in SoloRequests :
          next_session_id <= MaxSessionId /\ handle_create_session(i, req)
    \/ \E session_id \in 1 .. MaxSessionId : handle_join_session(i, session_id)
    \/ /\ start_check(clients[i], sessions) = 0 => num_starts < MaxStartThreads
       /\ handle_start_session(i)
    \/ handle_answer(i)

TimeoutNext ==
    \/ next_client_id <= MaxClientId /\ accept_client
    \/ \E i \in Slots : disconnect_client(i)
    \/ \E i \in Slots : TimeoutRequest(i)
    \/ \E i \in Slots : HandlerStep(i, NumberAnswers)
    \/ \E sl \in SSlots : StarterStep(sl)

TimeoutSpec ==
    /\ Init
    /\ [][TimeoutNext]_vars
    /\ \A i \in Slots : WF_vars(HandlerStep(i, NumberAnswers))
    /\ \A sl \in SSlots : WF_vars(StarterStep(sl))

(***************************************************************************)
(* JokerSpec: one solo session whose players may use their jokers.         *)
(***************************************************************************)
JokerRequest(i) ==
    \/ \E pseudo \in Pseudos : handle_register(i, pseudo, GoodPassword)
    \/ \E pseudo \in Pseudos : handle_login(i, pseudo, GoodPassword)
    \/ \E req \in SoloRequests :
          next_session_id <= MaxSessionId /\ handle_create_session(i, req)
    \/ \E session_id \in 1 .. MaxSessionId : handle_join_session(i, session_id)
    \/ /\ start_check(clients[i], sessions) = 0 => num_starts < MaxStartThreads
       /\ handle_start_session(i)
    \/ handle_answer(i)
    \/ \E type \in JokerTypes : handle_joker(i, type)

JokerNext ==
    \/ next_client_id <= MaxClientId /\ accept_client
    \/ \E i \in Slots : disconnect_client(i)
    \/ \E i \in Slots : JokerRequest(i)
    \/ \E i \in Slots : HandlerStep(i, NumberAnswers)
    \/ \E i \in Slots : fifty_reply(i)
    \/ \E sl \in SSlots : StarterStep(sl)

JokerSpec == Init /\ [][JokerNext]_vars

(***************************************************************************)
(* JokerUseSpec: one solo session of two players who stay connected and    *)
(* use their jokers; the responses to joker/use are recorded.              *)
(***************************************************************************)
JokerUseRequest(i) ==
    \/ \E pseudo \in Pseudos : handle_register(i, pseudo, GoodPassword)
    \/ \E pseudo \in Pseudos : handle_login(i, pseudo, GoodPassword)
    \/ next_session_id <= MaxSessionId /\ handle_create_session(i, GoodCreate)
    \/ \E session_id \in 1 .. MaxSessionId : handle_join_session(i, session_id)
    \/ /\ start_check(clients[i], sessions) = 0 => num_starts < MaxStartThreads
       /\ handle_start_session(i)
    \/ handle_answer(i)
    \/ \E type \in JokerTypes : handle_joker(i, type)

JokerUseStep(i) ==
    \/ create_join(i)
    \/ join_set(i)
    \/ \E ans \in NumberAnswers, response_time \in RespTimes :
          answer_step(i, ans, response_time)
    \/ results_step(i)
    \/ decide_step(i)
    \/ end_step(i)
    \/ advance_to_next_question(i)
    \/ dispatch_step(i)
    \/ fifty_reply(i)

JokerUseNext ==
    \/ next_client_id <= MaxClientId /\ accept_client
    \/ \E i \in Slots : JokerUseRequest(i)
    \/ \E i \in Slots : JokerUseStep(i)
    \/ \E sl \in SSlots : StarterStep(sl)

JokerUseSpec == InitJoker /\ [][JokerUseNext]_vars

(***************************************************************************)
(* ProtocolSpec: the endpoints with pre-checks, from clients logged in or   *)
(* not, on sessions that are created, joined and left; the statuts are     *)
(* recorded.  A start thread that was spawned has not run yet.             *)
(***************************************************************************)
ProtocolRequest(i) ==
    \/ \E pseudo \in Pseudos : handle_register(i, pseudo, GoodPassword)
    \/ \E pseudo \in Pseudos : handle_login(i, pseudo, GoodPassword)
    \/ \E req \in CreateRequests :
          next_session_id <= MaxSessionId /\ handle_create_session(i, req)
    \/ \E session_id \in 1 .. MaxSessionId : handle_join_session(i, session_id)
    \/ /\ start_check(clients[i], sessions) = 0 => num_starts < MaxStartThreads
       /\ handle_start_session(i)
    \/ handle_answer(i)
    \/ \E type \in JokerTypes : handle_joker(i, type)

ProtocolNext ==
    \/ next_client_id <= MaxClientId /\ accept_client
    \/ \E i \in Slots : disconnect_client(i)
    \/ \E i \in Slots : ProtocolRequest(i)
    \/ \E i \in Slots : LobbyStep(i)

ProtocolSpec == InitObserved /\ [][ProtocolNext]_vars

(***************************************************************************)
(* CreateSpec: session/create with parameters inside and outside the       *)
(* guardrails, session/join and disconnections; the responses are          *)
(* recorded.                                                               *)
(***************************************************************************)
CreateRequest(i) ==
    \/ \E pseudo \in Pseudos : handle_register(i, pseudo, GoodPassword)
    \/ \E pseudo \in Pseudos : handle_login(i, pseudo, GoodPassword)
    \/ \E req \in CreateRequests \cup RefusedCreateRequests :
          next_session_id <= LobbySessionIds /\ handle_create_session(i, req)
    \/ \E session_id \in 1 .. LobbySessionIds : handle_join_session(i, session_id)

CreateNext ==
    \/ next_client_id <= MaxClientId /\ accept_client
    \/ \E i \in Slots : disconnect_client(i)
    \/ \E i \in Slots : CreateRequest(i)
    \/ \E i \in Slots : LobbyStep(i)

CreateSpec == InitObserved /\ [][CreateNext]_vars

(***************************************************************************)
(* ReuseSpec: sessions are created one after the other, up to              *)
(* ReuseSessionIds of them, and finish when their only player              *)
(* disconnects; the responses are recorded.                                *)
(***************************************************************************)
ReuseRequest(i) ==
    \/ \E pseudo \in Pseudos : handle_register(i, pseudo, GoodPassword)
    \/ \E pseudo \in Pseudos : handle_login(i, pseudo, GoodPassword)
    \/ next_session_id <= ReuseSessionIds /\ handle_create_session(i, GoodCreate)

ReuseNext ==
    \/ next_client_id <= LobbyClientIds /\ accept_client
    \/ \E i \in Slots : disconnect_client(i)
    \/ \E i \in Slots : ReuseRequest(i)
    \/ \E i \in Slots : create_join(i)

ReuseSpec == InitObserved /\ [][ReuseNext]_vars

(***************************************************************************)
(* JoinSpec: LobbyClientIds connections and one session of two places,     *)
(* solo or battle; session/join names the session, the id 0 of an empty    *)
(* slot or an id that was never given; the responses are recorded.         *)
(***************************************************************************)
JoinRequests == {req \in CreateRequests :
                    Cardinality(Matching(req.themes, req.difficulty)) >= req.nb_q
                    /\ req.nb_q = MIN_NB_QUESTIONS}
JoinIds == 0 .. (MaxSessionId + 1)

JoinRequest(i) ==
    \/ \E pseudo \in Pseudos : handle_register(i, pseudo, GoodPassword)
    \/ \E pseudo \in Pseudos : handle_login(i, pseudo, GoodPassword)
    \/ \E req \in JoinRequests :
          next_session_id <= MaxSessionId /\ handle_create_session(i, req)
    \/ \E session_id \in JoinIds : handle_join_session(i, session_id)

JoinNext ==
    \/ next_client_id <= LobbyClientIds /\ accept_client
    \/ \E i \in Slots : disconnect_client(i)
    \/ \E i \in Slots : JoinRequest(i)
    \/ \E i \in Slots : LobbyStep(i)

JoinSpec == InitObserved /\ [][JoinNext]_vars

(***************************************************************************)
(* StartSpec: one session of StartPlaces places, LobbyClientIds            *)
(* connections that join and leave it, and one start thread, followed up   *)
(* to its sleep; the responses and the requester of the start are recorded.*)
(***************************************************************************)
StartRequests == {[GoodCreate EXCEPT !.max_p = StartPlaces]}

StartRequest(i) ==
    \/ \E pseudo \in Pseudos : handle_register(i, pseudo, GoodPassword)
    \/ \E pseudo \in Pseudos : handle_login(i, pseudo, GoodPassword)
    \/ \E req \in StartRequests :
          next_session_id <= MaxSessionId /\ handle_create_session(i, req)
    \/ \E session_id \in 1 .. MaxSessionId : handle_join_session(i, session_id)
    \/ /\ start_check(clients[i], sessions) = 0 => num_starts < MaxStartThreads
       /\ handle_start_session(i)

StartNext ==
    \/ next_client_id <= LobbyClientIds /\ accept_client
    \/ \E i \in Slots : disconnect_client(i)
    \/ \E i \in Slots : disconnect_end_session(i)
    \/ \E i \in Slots : StartRequest(i)
    \/ \E i \in Slots : LobbyStep(i)
    \/ \E sl \in SSlots : start_session(sl)

StartSpec == InitObserved /\ [][StartNext]_vars

(***************************************************************************)
(* AccountSpec: player/register and player/login with a short pseudo, one  *)
(* of MAX_PSEUDO_LEN - 1 bytes and one of MAX_PSEUDO_LEN bytes; the        *)
(* responses are recorded.                                                 *)
(***************************************************************************)
AccountPseudos ==
    {Alice, LongPseudo(MAX_PSEUDO_LEN - 1), LongPseudo(MAX_PSEUDO_LEN)}
Passwords == {GoodPassword, BadPassword}

AccountRequest(i) ==
    \/ \E pseudo \in AccountPseudos, password \in Passwords :
          handle_register(i, pseudo, password)
    \/ \E pseudo \in AccountPseudos, password \in Passwords :
          handle_login(i, pseudo, password)

AccountNext ==
    \/ next_client_id <= MaxClientId /\ accept_client
    \/ \E i \in Slots : disconnect_client(i)
    \/ \E i \in Slots : AccountRequest(i)

AccountSpec == InitObserved /\ [][AccountNext]_vars

(***************************************************************************)
(* ScoreSpec: one session of two players who stay connected, an answer     *)
(* that is right for one question and wrong for the other, given in the    *)
(* first half of the time limit, in the second and late;                   *)
(* the responses and the points added are recorded.                        *)
(***************************************************************************)
ScoreTimes == {MIN_TIME_LIMIT \div 2, MIN_TIME_LIMIT \div 2 + 1}

ScoreRequest(i) ==
    \/ \E pseudo \in Pseudos : handle_register(i, pseudo, GoodPassword)
    \/ \E pseudo \in Pseudos : handle_login(i, pseudo, GoodPassword)
    \/ next_session_id <= MaxSessionId /\ handle_create_session(i, GoodCreate)
    \/ \E session_id \in 1 .. MaxSessionId : handle_join_session(i, session_id)
    \/ /\ start_check(clients[i], sessions) = 0 => num_starts < MaxStartThreads
       /\ handle_start_session(i)
    \/ handle_answer(i)

ScoreStep(i) ==
    \/ create_join(i)
    \/ join_set(i)
    \/ \E ans \in NumberAnswers, response_time \in ScoreTimes :
          answer_step(i, ans, response_time)
    \/ results_step(i)
    \/ decide_step(i)
    \/ end_step(i)
    \/ advance_to_next_question(i)
    \/ dispatch_step(i)

ScoreNext ==
    \/ next_client_id <= MaxClientId /\ accept_client
    \/ \E i \in Slots : ScoreRequest(i)
    \/ \E i \in Slots : ScoreStep(i)
    \/ \E sl \in SSlots : StarterStep(sl)

ScoreSpec == InitObserved /\ [][ScoreNext]_vars

(***************************************************************************)
(* ReaderSpec: one connection at a time, whose bytes reach the read loop   *)
(* in chunks, with and without line terminators; the responses to the      *)
(* requests the loop dispatches are recorded.                              *)
(***************************************************************************)
InitReader == InitWith({"", "themes/list"})

ReaderNext ==
    \/ next_client_id <= MaxClientId /\ num_clients = 0 /\ accept_client
    \/ \E i \in Slots : disconnect_client(i)
    \/ \E i \in Slots : \E chunk \in Chunks : recv(i, chunk)

ReaderSpec == InitReader /\ [][ReaderNext]_vars

(***************************************************************************)
(* DiscoverSpec: datagrams from UdpPeers reach the responder while         *)
(* connections are accepted, log in and leave.  The payloads are the probe,*)
(* the probe cut short, in another case, followed by a newline, followed   *)
(* by a 0 byte and more, an empty datagram and one longer than the buffer. *)
(***************************************************************************)
UdpPeers == {"192.168.1.10:40000", "192.168.1.11:40001"}

Payloads ==
    { DISCOVERY_REQUEST,
      SubSeq(DISCOVERY_REQUEST, 1, Len(DISCOVERY_REQUEST) - 1),
      <<76>> \o Tail(DISCOVERY_REQUEST),
      DISCOVERY_REQUEST \o <<NL>>,
      DISCOVERY_REQUEST \o <<0, 120>>,
      << >>,
      DISCOVERY_REQUEST \o [k \in 1 .. RESPONSE_SIZE |-> 120] }

DiscoverRequest(i) ==
    \/ \E pseudo \in Pseudos : handle_register(i, pseudo, GoodPassword)
    \/ \E pseudo \in Pseudos : handle_login(i, pseudo, GoodPassword)

DiscoverNext ==
    \/ next_client_id <= MaxClientId /\ accept_client
    \/ \E i \in Slots : disconnect_client(i)
    \/ \E i \in Slots : DiscoverRequest(i)
    \/ \E addr \in UdpPeers : \E payload \in Payloads : udp_discovery_handler(addr, payload)

DiscoverSpec == Init /\ [][DiscoverNext]_vars

(***************************************************************************)
(* SkipSpec: one solo session of two players who stay connected and answer *)
(* or skip; the handler and start threads are scheduled fairly.            *)
(***************************************************************************)
SkipRequest(i) ==
    \/ \E pseudo \in Pseudos : handle_register(i, pseudo, GoodPassword)
    \/ \E pseudo \in Pseudos : handle_login(i, pseudo, GoodPassword)
    \/ next_session_id <= MaxSessionId /\ handle_create_session(i, GoodCreate)
    \/ \E session_id \in 1 .. MaxSessionId : handle_join_session(i, session_id)
    \/ /\ start_check(clients[i], sessions) = 0 => num_starts < MaxStartThreads
       /\ handle_start_session(i)
    \/ handle_answer(i)
    \/ handle_joker(i, "skip")

SkipStep(i) ==
    \/ create_join(i)
    \/ join_set(i)
    \/ \E ans \in NumberAnswers, response_time \in RespTimes :
          answer_step(i, ans, response_time)
    \/ results_step(i)
    \/ decide_step(i)
    \/ end_step(i)
    \/ advance_to_next_question(i)
    \/ dispatch_step(i)

SkipNext ==
    \/ next_client_id <= MaxClientId /\ accept_client
    \/ \E i \in Slots : SkipRequest(i)
    \/ \E i \in Slots : SkipStep(i)
    \/ \E sl \in SSlots : StarterStep(sl)

SkipSpec ==
    /\ Init
    /\ [][SkipNext]_vars
    /\ \A i \in Slots : WF_vars(SkipStep(i))
    /\ \A sl \in SSlots : WF_vars(StarterStep(sl))

(***************************************************************************)
(* ClampSpec: one session of two players who stay connected; the           *)
(* responseTime of an answer is negative, inside the time limit or above   *)
(* the time limit plus the second of grace.                                *)
(***************************************************************************)
ClampTimes == {-1, MIN_TIME_LIMIT \div 2, MIN_TIME_LIMIT + 2}

ClampStep(i) ==
    \/ create_join(i)
    \/ join_set(i)
    \/ \E ans \in NumberAnswers, response_time \in ClampTimes :
          answer_step(i, ans, response_time)
    \/ results_step(i)
    \/ decide_step(i)
    \/ end_step(i)
    \/ advance_to_next_question(i)
    \/ dispatch_step(i)

ClampNext ==
    \/ next_client_id <= MaxClientId /\ accept_client
    \/ \E i \in Slots : ScoreRequest(i)
    \/ \E i \in Slots : ClampStep(i)
    \/ \E sl \in SSlots : StarterStep(sl)

ClampSpec == Init /\ [][ClampNext]_vars

(***************************************************************************)
(* PenaltySpec: one battle session of two players with BattleLives lives,  *)
(* who stay connected and answer the multiple choice question right or     *)
(* wrong, the text question wrong, or skip; the broadcasts are recorded.   *)
(***************************************************************************)
BattleCreate ==
    [GoodCreate EXCEPT !.mode = "battle", !.has_lives = TRUE, !.lives = BattleLives]

(* the index 2 is right for the multiple choice question, the index 1 is
   not; no number is right for the text question *)
PenaltyAnswers ==
    NumberAnswers \cup {[answer_index |-> 1, text_answer |-> "", bool_answer |-> FALSE]}

PenaltyRequest(i) ==
    \/ \E pseudo \in Pseudos : handle_register(i, pseudo, GoodPassword)
    \/ \E pseudo \in Pseudos : handle_login(i, pseudo, GoodPassword)
    \/ next_session_id <= MaxSessionId /\ handle_create_session(i, BattleCreate)
    \/ \E session_id \in 1 .. MaxSessionId : handle_join_session(i, session_id)
    \/ /\ start_check(clients[i], sessions) = 0 => num_starts < MaxStartThreads
       /\ handle_start_session(i)
    \/ handle_answer(i)
    \/ handle_joker(i, "skip")

PenaltyStep(i) ==
    \/ create_join(i)
    \/ join_set(i)
    \/ \E ans \in PenaltyAnswers, response_time \in RespTimes :
          answer_step(i, ans, response_time)
    \/ results_step(i)
    \/ decide_step(i)
    \/ end_step(i)
    \/ advance_to_next_question(i)
    \/ dispatch_step(i)

PenaltyNext ==
    \/ next_client_id <= MaxClientId /\ accept_client
    \/ \E i \in Slots : PenaltyRequest(i)
    \/ \E i \in Slots : PenaltyStep(i)
    \/ \E sl \in SSlots : StarterStep(sl)

PenaltySpec == InitBroadcast /\ [][PenaltyNext]_vars

(***************************************************************************)
(* SlowestSpec: the same session; the players answer each question right   *)
(* or wrong, one sooner than the other or both at the same time.           *)
(***************************************************************************)
SlowestRequest(i) ==
    \/ \E pseudo \in Pseudos : handle_register(i, pseudo, GoodPassword)
    \/ \E pseudo \in Pseudos : handle_login(i, pseudo, GoodPassword)
    \/ next_session_id <= MaxSessionId /\ handle_create_session(i, BattleCreate)
    \/ \E session_id \in 1 .. MaxSessionId : handle_join_session(i, session_id)
    \/ /\ start_check(clients[i], sessions) = 0 => num_starts < MaxStartThreads
       /\ handle_start_session(i)
    \/ handle_answer(i)

SlowestStep(i) ==
    \/ create_join(i)
    \/ join_set(i)
    \/ \E ans \in Answers, response_time \in ScoreTimes :
          answer_step(i, ans, response_time)
    \/ results_step(i)
    \/ decide_step(i)
    \/ end_step(i)
    \/ advance_to_next_question(i)
    \/ dispatch_step(i)

SlowestNext ==
    \/ next_client_id <= MaxClientId /\ accept_client
    \/ \E i \in Slots : SlowestRequest(i)
    \/ \E i \in Slots : SlowestStep(i)
    \/ \E sl \in SSlots : StarterStep(sl)

SlowestSpec == InitBroadcast /\ [][SlowestNext]_vars

(***************************************************************************)
(* AdvanceSpec: the connections, sessions and requests of Spec; the         *)
(* broadcasts are recorded.                                                *)
(***************************************************************************)
AdvanceSpec == InitBroadcast /\ [][Next]_vars

(***************************************************************************)
(* LeaveSpec: the session, connections and start thread of StartSpec; the  *)
(* session/player/left notifications are recorded.                         *)
(***************************************************************************)
InitLeave == InitWith({"session/player/left"})

LeaveSpec == InitLeave /\ [][StartNext]_vars

(* LobbySpec with the recipients of session/player/left recorded *)
CleanupSpec == InitLeave /\ [][LobbyNext]_vars

(***************************************************************************)
(* TrioSpec: LobbyClientIds connections that stay, and one battle session  *)
(* of three places and one life; the players answer the multiple choice    *)
(* question right or wrong, at once (responseTime 0).                      *)
(***************************************************************************)
TrioTimes == {0}

TrioCreate ==
    [GoodCreate EXCEPT !.mode = "battle", !.has_lives = TRUE, !.lives = MIN_LIVES,
                       !.max_p = StartPlaces]

(* the clients send no request that is refused: one registers, each logs in
   once, the first creates, the others join, and they answer while playing *)
TrioRequest(i) ==
    \/ \E pseudo \in Pseudos : i = 0 /\ accounts = << >> /\ handle_register(i, pseudo, GoodPassword)
    \/ \E pseudo \in Pseudos :
          ~clients[i].authenticated /\ handle_login(i, pseudo, GoodPassword)
    \/ /\ i = 0 /\ next_session_id <= MaxSessionId
       /\ handle_create_session(i, TrioCreate)
    \/ \E session_id \in 1 .. MaxSessionId :
          /\ clients[i].authenticated /\ clients[i].current_session_id < 0
          /\ handle_join_session(i, session_id)
    \/ /\ start_check(clients[i], sessions) = 0 /\ num_starts < MaxStartThreads
       /\ Len(sessions[0].players) = StartPlaces
       /\ handle_start_session(i)
    \/ /\ clients[i].current_session_id > 0
       /\ sessions[find_session(sessions, clients[i].current_session_id)].status = "playing"
       /\ handle_answer(i)

TrioStep(i) ==
    \/ create_join(i)
    \/ join_set(i)
    \/ \E ans \in PenaltyAnswers, response_time \in TrioTimes :
          answer_step(i, ans, response_time)
    \/ results_step(i)
    \/ decide_step(i)
    \/ end_step(i)
    \/ advance_to_next_question(i)
    \/ dispatch_step(i)

TrioNext ==
    \/ next_client_id <= LobbyClientIds /\ accept_client
    \/ \E i \in Slots : TrioRequest(i)
    \/ \E i \in Slots : TrioStep(i)
    \/ \E sl \in SSlots : StarterStep(sl)

TrioSpec == Init /\ [][TrioNext]_vars

(***************************************************************************)
(* CapacitySpec: CapacityClientIds connections, at most MAX_CLIENTS at a   *)
(* time, and CapacitySessionIds sessions, the first with one place more    *)
(* than the players array has.                                             *)
(***************************************************************************)
CapacityCreate == [GoodCreate EXCEPT !.max_p = MAX_PLAYERS_PER_SESSION + 1]

CapacityRequest(i) ==
    \/ \E pseudo \in Pseudos :
          accounts = << >> /\ handle_register(i, pseudo, GoodPassword)
    \/ \E pseudo \in Pseudos :
          ~clients[i].authenticated /\ handle_login(i, pseudo, GoodPassword)
    \/ /\ next_session_id <= CapacitySessionIds
       /\ clients[i].authenticated
       /\ handle_create_session(i, IF next_session_id = 1 THEN CapacityCreate
                                                          ELSE GoodCreate)
    \/ /\ clients[i].authenticated
       /\ clients[i].current_session_id < 0
       /\ handle_join_session(i, 1)

CapacityNext ==
    \/ next_client_id <= CapacityClientIds /\ accept_client
    \/ \E i \in Slots : disconnect_client(i)
    \/ \E i \in Slots : CapacityRequest(i)
    \/ \E i \in Slots : LobbyStep(i)

CapacitySpec == Init /\ [][CapacityNext]_vars

(***************************************************************************)
(* Mutexes.  Every function is reduced to the pthread mutex operations it  *)
(* performs, in order; n is the number of players a loop writes to with    *)
(* send_to_client, sl the slot of the session.  A thread runs one function *)
(* at a time, one mutex operation per step, and waits while the mutex it   *)
(* asks for has an owner.                                                  *)
(***************************************************************************)
MaxSends == 1

Lock(m) == [op |-> "lock", m |-> m]
Unlock(m) == [op |-> "unlock", m |-> m]
MutexInit(m) == [op |-> "init", m |-> m]

RECURSIVE Repeat(_, _)
Repeat(ops, n) == IF n = 0 THEN << >> ELSE ops \o Repeat(ops, n - 1)

send_to_client_locks == <<Lock("clients_mutex"), Unlock("clients_mutex")>>

(* a critical section of the session mutex with n calls of send_to_client *)
session_section(sl, n) ==
    <<Lock(session_mutex(sl))>> \o Repeat(send_to_client_locks, n)
                                \o <<Unlock(session_mutex(sl))>>

(* memset and pthread_mutex_init of the slot under sessions_mutex *)
create_session_locks(sl) ==
    <<Lock("sessions_mutex"), MutexInit(session_mutex(sl)), Unlock("sessions_mutex")>>

join_session_locks(sl, n) == session_section(sl, n)

end_session_locks(sl, n) == session_section(sl, n)

(* ends: one player is left of a playing session *)
leave_session_locks(sl, n, ends) ==
    session_section(sl, n) \o (IF ends THEN end_session_locks(sl, n) ELSE << >>)

send_question_to_all_locks(sl, n) == session_section(sl, n)

start_session_locks(sl, n) == session_section(sl, n) \o send_question_to_all_locks(sl, n)

advance_to_next_question_locks(sl, n) ==
    session_section(sl, 0) \o send_question_to_all_locks(sl, n)

send_question_results_locks(sl, n, ends) ==
    session_section(sl, n) \o (IF ends THEN end_session_locks(sl, n)
                               ELSE advance_to_next_question_locks(sl, n))

(* all_answered: the answer was the last one of the question *)
process_answer_locks(sl, n, all_answered, ends) ==
    session_section(sl, 0) \o (IF all_answered
                               THEN send_question_results_locks(sl, n, ends)
                               ELSE << >>)

use_joker_locks(sl) == session_section(sl, 0)

save_accounts_locks == <<Lock("accounts_mutex"), Unlock("accounts_mutex")>>

register_player_locks == <<Lock("accounts_mutex"), Unlock("accounts_mutex")>>
                         \o save_accounts_locks

login_player_locks == <<Lock("accounts_mutex"), Unlock("accounts_mutex")>>

accept_client_locks == <<Lock("clients_mutex"), Unlock("clients_mutex")>>

(* a disconnect_client that would hold clients_mutex around leave_session *)
disconnect_client_locks_nested(sl, n, member, ends) ==
    <<Lock("clients_mutex")>>
    \o (IF member THEN leave_session_locks(sl, n, ends) ELSE << >>)
    \o <<Unlock("clients_mutex")>>

(* member: current_session_id names a session that find_session finds *)
disconnect_client_locks(sl, n, member, ends) ==
    (IF member THEN leave_session_locks(sl, n, ends) ELSE << >>)
    \o <<Lock("clients_mutex"), Unlock("clients_mutex")>>

cleanup_server_locks == <<Lock("clients_mutex"), Unlock("clients_mutex")>>
                        \o save_accounts_locks

(* what one request, or the end of the connection, makes client_handler run *)
HandlerPrograms ==
    {register_player_locks, login_player_locks}
    \cup {create_session_locks(sl) \o join_session_locks(sl, 0) : sl \in SSlots}
    \cup {join_session_locks(sl, n) : sl \in SSlots, n \in 0 .. MaxSends}
    \cup {process_answer_locks(sl, n, all_answered, ends) :
             sl \in SSlots, n \in 1 .. MaxSends, all_answered \in BOOLEAN,
             ends \in BOOLEAN}
    \cup {use_joker_locks(sl) : sl \in SSlots}
    \cup {disconnect_client_locks(sl, n, member, ends) :
             sl \in SSlots, n \in 0 .. MaxSends, member \in BOOLEAN, ends \in BOOLEAN}

ProgramsOf(t) ==
    IF t = "main" THEN {accept_client_locks, cleanup_server_locks}
    ELSE IF t = "start_session_thread"
    THEN {start_session_locks(sl, n) : sl \in SSlots, n \in 1 .. MaxSends}
    ELSE HandlerPrograms

dataVars == <<clients, num_clients, next_client_id, sessions, num_sessions,
              next_session_id, pc, hsess, removed, starters, num_starts, accounts,
              nresp, response, observed, eventVars, wireVars, leftTo>>

(* the thread enters one of its functions *)
BeginOp(t) ==
    /\ lock_program[t] = << >>
    /\ \E ops \in ProgramsOf(t) : lock_program' = [lock_program EXCEPT ![t] = ops]
    /\ UNCHANGED <<mutex_owner, dataVars>>

(* pthread_mutex_lock / pthread_mutex_unlock / pthread_mutex_init.  The
   mutexes are of the default kind: unlocking one that another thread owns
   (possible after pthread_mutex_init on a locked mutex) is undefined, and
   either releases it or leaves it *)
LockStep(t) ==
    /\ lock_program[t] # << >>
    /\ LET o == Head(lock_program[t])
       IN CASE o.op = "lock" ->
                 /\ mutex_owner[o.m] = NoThread
                 /\ mutex_owner' = [mutex_owner EXCEPT ![o.m] = t]
            [] o.op = "unlock" ->
                 \/ mutex_owner' = [mutex_owner EXCEPT ![o.m] = NoThread]
                 \/ /\ mutex_owner[o.m] \notin {t, NoThread}
                    /\ UNCHANGED mutex_owner
            [] o.op = "init" ->
                 mutex_owner' = [mutex_owner EXCEPT ![o.m] = NoThread]
    /\ lock_program' = [lock_program EXCEPT ![t] = Tail(@)]
    /\ UNCHANGED dataVars

LockNext ==
    \/ \E t \in LockThreads : BeginOp(t)
    \/ \E t \in LockThreads : LockStep(t)

LockSpec == Init /\ [][LockNext]_vars

(***************************************************************************)
(* Properties                                                              *)
(***************************************************************************)
(* C1: the status of a session only moves waiting -> playing, waiting ->
   finished or playing -> finished; no other transition occurs. *)
C1_StatusOnlyMovesForward ==
    [][\A sl \in SSlots :
          (sessions[sl].id # 0 /\ sessions'[sl].id = sessions[sl].id
           /\ sessions'[sl].status # sessions[sl].status)
          => <<sessions[sl].status, sessions'[sl].status>> \in
                {<<"waiting", "playing">>, <<"waiting", "finished">>,
                 <<"playing", "finished">>}]_vars

(* C2: once a session is finished, session/finished has been written exactly
   once to each client that was a member when end_session first ran. *)
C2_FinishedSentExactlyOnce ==
    \A sl \in SSlots :
        sessions[sl].status = "finished"
        => \A c \in endMembers[sl] : finSent[sl][c] = 1

(* C3: question/results is broadcast at most once per session and question
   index. *)
C3_ResultsAtMostOnce ==
    \A sl \in SSlots : \A k \in QIdx : resSent[sl][k] <= 1

(* C4: in a session the events come in the order question/new(k),
   question/results(k), question/new(k+1): results(k) is never broadcast
   before new(k), and new(k+1) never before results(k). *)
C4_EventOrder ==
    \A sl \in SSlots : \A k \in QIdx :
        /\ resSent[sl][k] > 0 => newSent[sl][k] > 0
        /\ (k > 0 /\ newSent[sl][k] > 0) => resSent[sl][k - 1] > 0

(* C5: once a session is finished no question/new is sent for it and its
   current-question-index no longer advances. *)
C5_NothingAfterFinished ==
    [][\A sl \in SSlots :
          (sessions[sl].status = "finished" /\ sessions'[sl].id = sessions[sl].id)
          => /\ newSent'[sl] = newSent[sl]
             /\ sessions'[sl].current_question = sessions[sl].current_question]_vars

(* C6: every question dispatched in a session eventually reaches its
   question/results broadcast (here: unless the session is finished first),
   whether or not the players answer. *)
C6_DispatchedReachesResults ==
    \A k \in QIdx :
        (newSent[0][k] > 0) ~> (resSent[0][k] > 0 \/ sessions[0].status = "finished")

(* C7: a connected client whose current-session-id is s is a player of an
   existing session with id s. *)
C7_CurrentSessionHoldsClient ==
    \A i \in Slots :
        (clients[i].connected /\ clients[i].current_session_id > 0)
        => \E sl \in SSlots :
              /\ sessions[sl].id = clients[i].current_session_id
              /\ clients[i].id \in PlayerIds(sessions[sl])

(* C8: a session never holds two SessionPlayer entries with the same client
   id. *)
C8_OnePlayerPerClient ==
    \A sl \in SSlots :
        \A a, b \in 1 .. Len(sessions[sl].players) :
            a # b => sessions[sl].players[a].client_id # sessions[sl].players[b].client_id

(* a join has just added a second player to a session that the creator had
   joined before *)
C8_Witness ==
    \E sl \in SSlots : \E i \in Slots :
        /\ pc[i] = "join_set"
        /\ hsess[i] = sl
        /\ Len(sessions[sl].players) = 2
        /\ sessions[sl].creator_client_id \in PlayerIds(sessions[sl])

PlayerOf(s, client_id) == s.players[find_session_player(s, client_id)]
AnswerFields(p) ==
    <<p.score, p.correct_answers, p.was_correct, p.current_answer, p.response_time>>

(* C9: once an answer or skip of a client was accepted for a question index
   of a session, the processing of a later question/answer of that client
   for the same index leaves the player's score, correct-answer count,
   was-correct, last answer and response time unchanged. *)
C9_FirstAnswerOnly ==
    [][\A i \in Slots :
          (/\ pc[i] = "answer"
           /\ pc'[i] # "answer"
           /\ sessions[hsess[i]].current_question \in QIdx
           /\ accepted[hsess[i]][clients[i].id][sessions[hsess[i]].current_question]
           /\ find_session_player(sessions[hsess[i]], clients[i].id) # 0)
          => AnswerFields(PlayerOf(sessions'[hsess[i]], clients[i].id))
                = AnswerFields(PlayerOf(sessions[hsess[i]], clients[i].id))]_vars

(* C10: when a handler is back in its read loop, exactly one response has
   been written for the request it handled. *)
C10_OneResponsePerRequest ==
    \A i \in Slots : pc[i] = "idle" => nresp[i] = 0

(* a step of a handler of an endpoint that requires a logged-in client *)
AuthRequired(i) ==
    \/ \E req \in CreateRequests : handle_create_session(i, req)
    \/ \E session_id \in 1 .. MaxSessionId : handle_join_session(i, session_id)
    \/ handle_start_session(i)
    \/ handle_answer(i)
    \/ \E type \in JokerTypes : handle_joker(i, type)

(* a step of a handler of an endpoint that requires a current session *)
SessionRequired(i) ==
    \/ handle_start_session(i)
    \/ handle_answer(i)
    \/ \E type \in JokerTypes : handle_joker(i, type)

(* C11: a request to an auth-required endpoint from a client that is not
   logged in is answered with statut 401 and changes no server state; a
   request to a session-required endpoint from a logged-in client without a
   current session is answered with statut 400. *)
C11_PreChecks ==
    [][\A i \in Slots :
          /\ (~clients[i].authenticated /\ AuthRequired(i))
             => /\ response'[i].statut = 401
                /\ UNCHANGED <<clients, sessions, num_sessions, next_session_id,
                               starters, accounts>>
          /\ (clients[i].authenticated /\ clients[i].current_session_id < 0
              /\ SessionRequired(i))
             => response'[i].statut = 400]_vars

(* the request is outside the guardrails of session/create *)
OutOfRange(req) ==
    \/ req.nb_q < MIN_NB_QUESTIONS \/ req.nb_q > MAX_NB_QUESTIONS
    \/ req.t_limit < MIN_TIME_LIMIT \/ req.t_limit > MAX_TIME_LIMIT
    \/ req.max_p < MIN_MAX_PLAYERS
    \/ /\ req.mode = "battle"
       /\ (~req.has_lives \/ req.lives < MIN_LIVES \/ req.lives > MAX_LIVES)

(* C12: session/create from a logged-in client with a question count, time
   limit, player maximum or (battle) lives outside the guardrails is answered
   with statut 400 and changes neither the session table, the next session
   id nor the client's current-session-id. *)
C12_InvalidCreateRefused ==
    [][\A i \in Slots : \A req \in CreateRequests \cup RefusedCreateRequests :
          (clients[i].authenticated /\ OutOfRange(req) /\ handle_create_session(i, req))
          => /\ response'[i].statut = 400
             /\ UNCHANGED <<sessions, num_sessions, next_session_id>>
             /\ clients'[i].current_session_id = clients[i].current_session_id]_vars

(* a logged-in client has been refused a session/create for its parameters
   while a session exists *)
C12_Witness ==
    \E i \in Slots :
        /\ clients[i].authenticated
        /\ response[i].action = "session/create"
        /\ response[i].statut = 400
        /\ response[i].message \in {"invalid parameters", "lives required for battle mode",
                                    "lives must be between 1 and 10"}
        /\ num_sessions > 0

(* the session ids find_session finds, those sessions/list lists, and the
   slots that hold a waiting or playing session *)
FindableIds(ss) == {ss[sl].id : sl \in SSlots} \ {0}
ListedIds(ss) == {ss[sl].id : sl \in {t \in SSlots : ss[t].status = "waiting"}} \ {0}
Occupied(ss) == {sl \in SSlots : ss[sl].id # 0 /\ ss[sl].status # "finished"}

(* C13: session/create whose themes and difficulty match fewer questions
   than asked for is answered with statut 400 and creates no session: no new
   session id is findable or listed, the number of occupied slots and the
   requester's current-session-id are unchanged. *)
C13_ScarceCreateRefused ==
    [][\A i \in Slots : \A req \in CreateRequests :
          (/\ clients[i].authenticated
           /\ ~OutOfRange(req)
           /\ Cardinality(Matching(req.themes, req.difficulty)) < req.nb_q
           /\ handle_create_session(i, req))
          => /\ response'[i].statut = 400
             /\ FindableIds(sessions') \subseteq FindableIds(sessions)
             /\ ListedIds(sessions') \subseteq ListedIds(sessions)
             /\ Cardinality(Occupied(sessions')) = Cardinality(Occupied(sessions))
             /\ num_sessions' = num_sessions
             /\ clients'[i].current_session_id = clients[i].current_session_id]_vars

(* a create was refused for lack of questions while the table had room, one
   session having been created *)
C13_Witness ==
    \E i \in Slots :
        /\ response[i] = send_error("session/create", 400,
                                    "not enough questions matching criteria")
        /\ num_sessions = 1
        /\ next_session_id = 3

(* C14: the slot of a finished session is reusable: a valid session/create
   with enough matching questions, sent by a logged-in client while fewer
   than MAX_SESSIONS sessions are waiting or playing, creates a session,
   however many sessions were created and finished before *)
C14_FinishedSlotsReusable ==
    [][\A i \in Slots :
          (/\ clients[i].authenticated
           /\ Cardinality(Occupied(sessions)) < MAX_SESSIONS
           /\ handle_create_session(i, GoodCreate))
          => /\ pc'[i] = "create_join"
             /\ Cardinality(Occupied(sessions')) = Cardinality(Occupied(sessions)) + 1]_vars

(* the session a session/join names: the slot of a session that was created
   with that id, -1 when no session has it *)
Named(ss, session_id) ==
    IF session_id >= 1 THEN find_session(ss, session_id) ELSE -1

Admissible(s, client_id) ==
    /\ s.status = "waiting"
    /\ Len(s.players) < s.max_players
    /\ client_id \notin PlayerIds(s)

(* the statuts the refusal of a join may carry, by the reasons that apply *)
RefusalCodes(s, client_id) ==
    (IF Len(s.players) >= s.max_players THEN {403} ELSE {})
    \cup (IF s.status # "waiting" \/ client_id \in PlayerIds(s) THEN {400} ELSE {})

FreshPlayer(s, p, client_id) ==
    /\ p.client_id = client_id
    /\ p.score = 0
    /\ p.lives = (IF s.mode = "battle" THEN s.initial_lives ELSE 0)
    /\ ~p.joker_fifty_used
    /\ ~p.joker_skip_used
    /\ ~p.eliminated

(* C15: a session/join of a logged-in client is admitted exactly when the
   session is waiting, has a free place and does not hold the client yet;
   a refusal changes no session and is answered 404 for an unknown id, 403
   for a full session, 400 for a session not waiting or already joined; an
   admission appends exactly one player with score 0, lives L0 (battle) or
   0 (solo), both jokers unused, not eliminated *)
C15_JoinAdmission ==
    [][\A i \in Slots : \A session_id \in JoinIds :
          (clients[i].authenticated /\ handle_join_session(i, session_id))
          => LET sl == Named(sessions, session_id)
                 c == clients[i].id
             IN IF sl = -1
                THEN response'[i].statut = 404 /\ sessions' = sessions
                ELSE IF Admissible(sessions[sl], c)
                THEN /\ Len(sessions'[sl].players) = Len(sessions[sl].players) + 1
                     /\ SubSeq(sessions'[sl].players, 1, Len(sessions[sl].players))
                            = sessions[sl].players
                     /\ FreshPlayer(sessions[sl],
                                    sessions'[sl].players[Len(sessions'[sl].players)], c)
                     /\ \A t \in SSlots \ {sl} : sessions'[t] = sessions[t]
                ELSE /\ response'[i].statut \in RefusalCodes(sessions[sl], c)
                     /\ sessions' = sessions]_vars

(* the part of a session that a start may change, and the members' state *)
StartState(s) == <<s.status, s.current_question, s.players>>

Member(i, sl) ==
    /\ sessions[sl].id > 0
    /\ clients[i].current_session_id = sessions[sl].id
    /\ clients[i].id \in PlayerIds(sessions[sl])

(* C16: a session/start changes a session (and session/started is sent, by
   the step of start_session that changes it) only when the requester is
   the creator of the session and the session has at least 2 players at the
   moment the start takes effect; the start of a member who is not the
   creator is answered 403, the start of the creator of a session with
   fewer than 2 players 400, and neither changes status, current question
   or players, nor spawns a start thread *)
C16_StartByCreatorOnly ==
    [][/\ \A sl \in SSlots :
             (start_session(sl) /\ StartState(sessions'[sl]) # StartState(sessions[sl]))
             => /\ sessions[sl].creator_client_id \in starters[sl].by
                /\ Len(sessions[sl].players) >= 2
       /\ \A i \in Slots : \A sl \in SSlots :
             (Member(i, sl) /\ handle_start_session(i))
             => /\ sessions[sl].creator_client_id # clients[i].id
                   => /\ response'[i].statut = 403
                      /\ UNCHANGED <<sessions, starters>>
                /\ (sessions[sl].creator_client_id = clients[i].id
                    /\ Len(sessions[sl].players) < 2)
                   => /\ response'[i].statut = 400
                      /\ UNCHANGED <<sessions, starters>>]_vars

(* a register with these two strings has succeeded *)
Registered(pseudo, password) ==
    \E k \in 1 .. Len(accounts) : accounts[k].request = <<pseudo, password>>

(* C17: once register(pseudo, password) has succeeded, every later login
   with the same two strings is answered 200, whatever registers and logins
   came in between and whatever the length of the pseudo *)
C17_LoginAfterRegister ==
    [][\A i \in Slots : \A pseudo \in AccountPseudos : \A password \in Passwords :
          (Registered(pseudo, password) /\ handle_login(i, pseudo, password))
          => /\ response'[i].statut = 200
             /\ clients'[i].authenticated]_vars

(* the points of a correct answer, by the scoring table *)
TablePoints(difficulty, response_time, time_limit) ==
    (CASE difficulty = "easy" -> 5 [] difficulty = "medium" -> 10 [] OTHER -> 15)
    + (IF 2 * response_time <= time_limit
       THEN (CASE difficulty = "easy" -> 1 [] difficulty = "medium" -> 3 [] OTHER -> 6)
       ELSE 0)

(* C18: an accepted correct answer raises the score by base + bonus of the
   question's difficulty when the recorded response time is at most half
   the time limit and by base otherwise, any other answer leaves the score
   unchanged; and the points that question/results reports for a player
   are the amount added to the player's score for that question *)
C18_ScoringAndReportedPoints ==
    [][\A i \in Slots :
          /\ (/\ pc[i] = "answer"
              /\ pc'[i] # "answer"
              /\ find_session_player(sessions[hsess[i]], clients[i].id) # 0)
             => LET s == sessions[hsess[i]]
                    p == PlayerOf(s, clients[i].id)
                    r == PlayerOf(sessions'[hsess[i]], clients[i].id)
                IN IF ~answer_rejected(s, clients[i].id) /\ get_current_question(s) # 0
                      /\ r.was_correct
                   THEN r.score - p.score
                           = TablePoints(Question(get_current_question(s)).difficulty,
                                         r.response_time, s.time_limit)
                   ELSE r.score = p.score
          /\ (/\ pc[i] = "results"
              /\ pc'[i] = "decide")
             => LET s == sessions[hsess[i]]
                IN \A k \in 1 .. Len(s.players) :
                      reported_points(s, s.players[k])
                         = gained[hsess[i]][s.players[k].client_id]]_vars

JokerFields(p) ==
    <<p.joker_fifty_used, p.joker_skip_used, p.has_answered, p.current_answer>>

(* the joker of that type is unavailable to the client of slot i: not in a
   playing session, not a member, already used, already answered, or a
   fifty on a question that is not multiple choice *)
Unavailable(i, type) ==
    LET sl == find_session(sessions, clients[i].current_session_id)
        s == sessions[sl]
        p == PlayerOf(s, clients[i].id)
    IN \/ clients[i].current_session_id < 0
       \/ sl = -1
       \/ s.status # "playing"
       \/ clients[i].id \notin PlayerIds(s)
       \/ p.has_answered
       \/ type = "fifty" /\ p.joker_fifty_used
       \/ type = "skip" /\ p.joker_skip_used
       \/ type = "fifty" /\ (get_current_question(s) = 0
                              \/ Question(get_current_question(s)).type # "qcm")

(* C19: each joker is single-use per player and session: a joker/use is
   granted only to a player who has not used that joker, marks it used, and
   the mark is never cleared while the player is in the session; a
   joker/use for an unavailable joker is answered 400 and leaves fifty-used,
   skip-used, has-answered and last-answer of every player unchanged *)
C19_JokersSingleUse ==
    [][/\ \A sl \in SSlots : \A c \in ClientIds :
             (/\ sessions'[sl] # sessions[sl]
              /\ sessions[sl].id > 0
              /\ sessions'[sl].id = sessions[sl].id
              /\ c \in PlayerIds(sessions[sl]) \cap PlayerIds(sessions'[sl]))
             => /\ PlayerOf(sessions[sl], c).joker_fifty_used
                      => PlayerOf(sessions'[sl], c).joker_fifty_used
                /\ PlayerOf(sessions[sl], c).joker_skip_used
                      => PlayerOf(sessions'[sl], c).joker_skip_used
       /\ \A i \in Slots : \A type \in JokerTypes :
             (pc[i] = "idle" /\ clients' = clients /\ handle_joker(i, type))
             => LET sl == find_session(sessions, clients[i].current_session_id)
                IN IF Unavailable(i, type)
                   THEN /\ response'[i].statut = 400
                        /\ \A t \in SSlots :
                              /\ Len(sessions'[t].players) = Len(sessions[t].players)
                              /\ \A k \in 1 .. Len(sessions[t].players) :
                                    JokerFields(sessions'[t].players[k])
                                       = JokerFields(sessions[t].players[k])
                   ELSE LET p == PlayerOf(sessions[sl], clients[i].id)
                            r == PlayerOf(sessions'[sl], clients[i].id)
                        IN IF type = "fifty"
                           THEN ~p.joker_fifty_used /\ r.joker_fifty_used
                           ELSE ~p.joker_skip_used /\ r.joker_skip_used]_vars

(* a joker/use was refused to a player who has used the fifty *)
C19_Witness ==
    \E i \in Slots : \E sl \in SSlots :
        /\ response[i] = send_error("joker/use", 400, "joker not available")
        /\ sessions[sl].status = "playing"
        /\ clients[i].current_session_id = sessions[sl].id
        /\ clients[i].id \in PlayerIds(sessions[sl])
        /\ PlayerOf(sessions[sl], clients[i].id).joker_fifty_used
        /\ ~PlayerOf(sessions[sl], clients[i].id).joker_skip_used
        /\ ~PlayerOf(sessions[sl], clients[i].id).has_answered

(* C20: the response to a granted joker/use fifty carries exactly two
   option strings of the session's current question, which is multiple
   choice: its correct option and one of its incorrect options, whatever
   the other threads of the session did in between *)
C20_FiftyKeepsCorrectAndOneWrong ==
    [][\A i \in Slots :
          fifty_reply(i)
          => LET s == sessions[hsess[i]]
                 q == Question(get_current_question(s))
                 ra == response'[i].remainingAnswers
             IN /\ get_current_question(s) # 0
                /\ q.type = "qcm"
                /\ Len(ra) = 2
                /\ \E k \in (0 .. 3) \ {q.correct_answer} :
                      {ra[1], ra[2]} = {q.answers[q.correct_answer], q.answers[k]}]_vars

(* the connection of slot i is open and nothing it sends is taken any more *)
Deaf(i) ==
    /\ clients[i].connected
    /\ \A chunk \in Chunks : append_chunk(message_buffer[i], chunk) = message_buffer[i]

(* C21: when a connection has delivered more than MAX_MESSAGE_LEN bytes
   without a line terminator, the reader drops the message and disconnects
   the peer; and no connection stays open in a state where everything it
   sends from then on is discarded *)
C21_OverlongLineDisconnects ==
    [][\A i \in Slots :
          /\ \A chunk \in Chunks :
                (/\ recv(i, chunk)
                 /\ strchr(message_buffer[i] \o chunk, NL) = 0
                 /\ Len(message_buffer[i] \o chunk) > MAX_MESSAGE_LEN)
                => ~clients'[i].connected
          /\ ~Deaf(i)']_vars

(* "hello i'm a quiznet server:QuizNet #0042:5556" *)
Advertisement ==
    <<104, 101, 108, 108, 111, 32, 105, 39, 109, 32, 97, 32, 113, 117, 105, 122,
      110, 101, 116, 32, 115, 101, 114, 118, 101, 114, 58, 81, 117, 105, 122, 78,
      101, 116, 32, 35, 48, 48, 52, 50, 58, 53, 53, 53, 54>>

(* C22: the responder sends a reply for a datagram if and only if its
   payload is exactly the bytes of "looking for quiznet servers"; the reply
   goes to the source address of the datagram and is exactly
   "hello i'm a quiznet server:" followed by the server name, ':' and the
   TCP port; every other datagram gets no reply, and no datagram changes
   the state of the server *)
C22_DiscoveryReply ==
    [][\A addr \in UdpPeers : \A payload \in Payloads :
          udp_discovery_handler(addr, payload)
          => /\ (reply' # NoDatagram) <=> (payload = DISCOVERY_REQUEST)
             /\ reply' # NoDatagram
                   => reply' = [addr |-> addr, payload |-> Advertisement]
             /\ UNCHANGED <<clients, num_clients, next_client_id, sessions, num_sessions,
                            next_session_id, accounts, pc>>]_vars

(* every member of sl who is not eliminated has answered or skipped the
   question of index k, which is the current one *)
AllIn(sl, k) ==
    /\ sessions[sl].status = "playing"
    /\ sessions[sl].current_question = k
    /\ Len(sessions[sl].players) > 0
    /\ \A n \in 1 .. Len(sessions[sl].players) :
          LET p == sessions[sl].players[n]
          IN p.eliminated \/ (p.has_answered /\ accepted[sl][p.client_id][k])

(* C23: whenever every non-eliminated member of a playing session has
   answered the current question, by an accepted question/answer or by the
   skip joker, question/results for that question is eventually broadcast *)
C23_AllAnsweredLeadsToResults ==
    \A sl \in SSlots : \A k \in QIdx : AllIn(sl, k) ~> (resSent[sl][k] > 0)

(* C24: for every accepted answer the response time recorded for the player
   lies in [0, Tq + 1]: a submitted responseTime below 0 or above Tq + 1 is
   replaced by Tq + 1 before scoring *)
C24_ResponseTimeClamped ==
    [][\A i \in Slots : \A ans \in NumberAnswers : \A response_time \in ClampTimes :
          (/\ pc[i] = "answer"
           /\ answer_step(i, ans, response_time)
           /\ ~answer_rejected(sessions[hsess[i]], clients[i].id))
          => LET s == sessions[hsess[i]]
                 r == PlayerOf(sessions'[hsess[i]], clients[i].id)
             IN /\ r.response_time >= 0
                /\ r.response_time <= s.time_limit + 1
                /\ (response_time < 0 \/ response_time > s.time_limit + 1)
                      => r.response_time = s.time_limit + 1]_vars

(* C25: in the results phase of a battle session, for every kind of
   question, each non-eliminated player who answered, was not correct and
   did not skip loses exactly one life, and is eliminated, with
   eliminated-at the current index plus one, when the lives reach 0 or
   less; a player who skipped or did not answer loses no life *)
C25_WrongAnswerCostsOneLife ==
    [][\A i \in Slots :
          (/\ pc[i] = "results"
           /\ pc'[i] = "decide"
           /\ sessions[hsess[i]].mode = "battle")
          => LET s == sessions[hsess[i]]
             IN \A n \in 1 .. Len(s.players) :
                   LET p == s.players[n]
                       r == sessions'[hsess[i]].players[n]
                   IN /\ (/\ ~p.eliminated
                          /\ p.has_answered
                          /\ ~p.was_correct
                          /\ ~p.used_skip_this_question)
                         => /\ r.lives = p.lives - 1
                            /\ r.eliminated = (r.lives <= 0)
                            /\ r.eliminated => r.eliminated_at = s.current_question + 1
                      /\ (p.used_skip_this_question \/ ~p.has_answered)
                         => /\ r.lives = p.lives
                            /\ r.eliminated = p.eliminated]_vars

(* the players of s who answered the current question without skipping *)
Answerers(s) ==
    {n \in 1 .. Len(s.players) :
        /\ ~s.players[n].eliminated
        /\ s.players[n].has_answered
        /\ ~s.players[n].used_skip_this_question}

(* the slowest of them: the highest response time, the lowest index on ties;
   0 if nobody answered *)
Slowest(s) ==
    IF Answerers(s) = {} THEN 0
    ELSE CHOOSE n \in Answerers(s) :
            \A m \in Answerers(s) :
                \/ s.players[m].response_time < s.players[n].response_time
                \/ s.players[m].response_time = s.players[n].response_time /\ n <= m

(* C26: in the results phase of a battle session the slowest player is the
   one with the highest response time among the players who answered
   without skipping, the lowest index on ties; if that player's answer was
   correct, whatever the kind of the question, the player loses exactly one
   life, with the same elimination check; and that player is the one
   question/results names as lastPlayer *)
C26_SlowestCorrectLosesLife ==
    [][\A i \in Slots :
          (/\ pc[i] = "results"
           /\ pc'[i] = "decide"
           /\ sessions[hsess[i]].mode = "battle"
           /\ Slowest(sessions[hsess[i]]) # 0)
          => LET s == sessions[hsess[i]]
                 p == s.players[Slowest(s)]
                 r == sessions'[hsess[i]].players[Slowest(s)]
             IN /\ lastPlayer'[hsess[i]] = p.client_id
                /\ p.was_correct
                      => /\ r.lives = p.lives - 1
                         /\ r.eliminated = (r.lives <= 0)
                         /\ r.eliminated => r.eliminated_at = s.current_question + 1]_vars

(* the session ends after the results of its current question *)
LastResults(s) ==
    \/ /\ s.mode = "battle"
       /\ Cardinality({n \in 1 .. Len(s.players) : ~s.players[n].eliminated}) <= 1
    \/ s.current_question + 1 >= s.num_questions

(* C27: after question/results for the index k: if the mode is battle and
   at most one player is not eliminated, or if k + 1 >= Nq, the session
   becomes finished, session/finished is broadcast and no question/new
   follows; otherwise the session stays playing, its current index becomes
   k + 1 and the question of that index is dispatched to exactly the
   players who are not eliminated *)
C27_AfterResults ==
    [][/\ \A i \in Slots :
             LET sl == hsess[i]
                 s == sessions[sl]
             IN /\ (pc[i] = "decide" /\ pc'[i] # "decide")
                   => (pc'[i] = "end") = LastResults(s)
                /\ (pc[i] = "end" /\ pc'[i] = "idle")
                   => /\ sessions'[sl].status = "finished"
                      /\ \A c \in PlayerIds(s) :
                            send_to_client(clients, num_clients, c) => finSent'[sl][c] > 0
                /\ (pc[i] = "sleep" /\ pc'[i] = "dispatch")
                   => /\ sessions'[sl].status = "playing"
                      /\ sessions'[sl].current_question = s.current_question + 1
                      /\ resSent[sl][s.current_question] > 0
                /\ (pc[i] = "dispatch" /\ pc'[i] = "idle")
                   => /\ sessions'[sl].status = "playing"
                      /\ newSent'[sl][s.current_question] = 1
                      /\ newTo'[sl] = {s.players[n].client_id :
                                         n \in {m \in 1 .. Len(s.players) :
                                                   ~s.players[m].eliminated}}
       /\ \A sl \in SSlots :
             (/\ sessions[sl].status = "finished"
              /\ sessions'[sl].id = sessions[sl].id
              /\ sessions[sl].current_question \in QIdx
              /\ resSent[sl][sessions[sl].current_question] > 0
              /\ LastResults(sessions[sl]))
             => newSent'[sl] = newSent[sl]]_vars

(* C28: the ranking array of session/finished is a permutation of the
   session's players at end with ranks 1..n, ordered by score non-increasing
   in solo and by the key (lives, eliminated-at, score) non-increasing in
   battle, and in battle the winner field names the player at rank 1 *)
KeyGE(mode, a, b) ==
    IF mode = "battle"
    THEN \/ a.lives > b.lives
         \/ /\ a.lives = b.lives
            /\ \/ a.eliminated_at > b.eliminated_at
               \/ a.eliminated_at = b.eliminated_at /\ a.score >= b.score
    ELSE a.score >= b.score

RankingOf(r, s) ==
    /\ Len(r) = Len(s.players)
    /\ \A k \in 1 .. Len(r) : r[k].rank = k
    /\ \E f \in Permutations(1 .. Len(r)) :
          \A k \in 1 .. Len(r) :
             /\ r[k].client_id = s.players[f[k]].client_id
             /\ r[k].score = s.players[f[k]].score
             /\ r[k].lives = s.players[f[k]].lives
             /\ r[k].eliminated_at = s.players[f[k]].eliminated_at
    /\ \A k \in 1 .. (Len(r) - 1) : KeyGE(s.mode, r[k], r[k + 1])

C28_RankingSorted ==
    [][\A sl \in SSlots :
          ranking'[sl] # ranking[sl] /\ ranking'[sl] # NoRanking
          => /\ RankingOf(ranking'[sl].ranking, sessions'[sl])
             /\ (sessions'[sl].mode = "battle" /\ Len(ranking'[sl].ranking) >= 1)
                => ranking'[sl].winner = ranking'[sl].ranking[1].client_id]_vars

(* a battle session ended with two players, the second of its player list
   ranked first *)
C28_Witness ==
    \E sl \in SSlots :
       /\ sessions[sl].mode = "battle"
       /\ sessions[sl].status = "finished"
       /\ Len(sessions[sl].players) = 2
       /\ Len(ranking[sl].ranking) = 2
       /\ ranking[sl].ranking[1].client_id = sessions[sl].players[2].client_id
       /\ ranking[sl].ranking[2].client_id = sessions[sl].players[1].client_id
       /\ ranking[sl].winner = sessions[sl].players[2].client_id

(* C29: leave_session for a member c removes exactly c's SessionPlayer, keeps
   the other players in order with their fields, makes the first remaining
   player the creator iff c was the creator, sends session/player/left to
   exactly the remaining players, finishes the session when nobody remains
   and triggers end_session when one remains in a playing session; for a
   non-member it changes nothing *)
IsConnected(c) == \E j \in Slots : clients[j].id = c /\ clients[j].connected

Leaves(i) ==
    /\ pc[i] = "idle"
    /\ pc'[i] \in {"none", "leave_end"}
    /\ clients[i].current_session_id > 0
    /\ find_session(sessions, clients[i].current_session_id) # -1

LeaveEffect(i) ==
    LET c == clients[i].id
        sl == find_session(sessions, clients[i].current_session_id)
        s == sessions[sl]
        t == sessions'[sl]
        n == Len(t.players)
    IN /\ \A o \in SSlots \ {sl} : sessions'[o] = sessions[o]
       /\ IF c \in PlayerIds(s)
          THEN /\ c \notin PlayerIds(t)
               /\ \E k \in 1 .. Len(s.players) :
                     /\ s.players[k].client_id = c
                     /\ n = Len(s.players) - 1
                     /\ \A j \in 1 .. n :
                           t.players[j] = s.players[IF j < k THEN j ELSE j + 1]
               /\ t.creator_client_id =
                     IF s.creator_client_id = c /\ n > 0
                     THEN t.players[1].client_id ELSE s.creator_client_id
               /\ leftTo'[sl] = {d \in PlayerIds(t) : IsConnected(d)}
               /\ t.status = IF n = 0 THEN "finished" ELSE s.status
               /\ (pc'[i] = "leave_end") = (n = 1 /\ s.status = "playing")
               /\ t = [s EXCEPT !.players = t.players,
                                !.creator_client_id = t.creator_client_id,
                                !.status = t.status]
          ELSE /\ t = s
               /\ leftTo' = leftTo
               /\ pc'[i] = "none"

C29_LeaveSessionFrame ==
    [][\A i \in Slots : Leaves(i) => LeaveEffect(i)]_vars

(* C30: whenever a session is waiting and findable by its id, the client
   recorded as its creator is one of its players, however the creating
   request interleaves with session/join requests of other clients *)
C30_CreatorIsMember ==
    \A sl \in SSlots :
       (sessions[sl].id > 0 /\ sessions[sl].status = "waiting")
       => sessions[sl].creator_client_id \in PlayerIds(sessions[sl])

(* C33: while a session is playing, its current question index k satisfies
   0 <= k < Nq, so that get_current_question resolves to one of the selected
   question ids *)
C33_IndexInRange ==
    \A sl \in SSlots :
       sessions[sl].status = "playing"
       => /\ 0 <= sessions[sl].current_question
          /\ sessions[sl].current_question < sessions[sl].num_questions
          /\ get_current_question(sessions[sl]) # 0

(* C37: between session/start taking effect and the first question/new, no
   question/answer or joker/use changes a player's has_answered, score or
   joker flags, and none triggers results *)
Countdown(sl) ==
    /\ sessions[sl].status = "playing"
    /\ ~sessions[sl].question_started
    /\ sessions'[sl].id = sessions[sl].id

SameAnswerState(p, q) ==
    /\ p.has_answered = q.has_answered
    /\ p.score = q.score
    /\ p.joker_fifty_used = q.joker_fifty_used
    /\ p.joker_skip_used = q.joker_skip_used

C37_NothingBeforeFirstQuestion ==
    [][\A sl \in SSlots :
          Countdown(sl)
          => /\ \A a \in 1 .. Len(sessions[sl].players) :
                   \A b \in 1 .. Len(sessions'[sl].players) :
                      sessions[sl].players[a].client_id = sessions'[sl].players[b].client_id
                      => SameAnswerState(sessions[sl].players[a], sessions'[sl].players[b])
             /\ resSent'[sl] = resSent[sl]]_vars

(* C38: while a session is playing its current question index never
   decreases and each index is dispatched at most once; a session/start that
   arrives while the session is playing leaves the session as it is and
   sends neither session/started nor question/new *)
StartsWhilePlaying(sl) ==
    /\ sessions[sl].status = "playing"
    /\ starters'[sl].start < starters[sl].start

C38_IndexMonotone ==
    [][\A sl \in SSlots :
          /\ (/\ sessions[sl].status = "playing"
              /\ sessions'[sl].status = "playing"
              /\ sessions'[sl].id = sessions[sl].id)
             => sessions'[sl].current_question >= sessions[sl].current_question
          /\ \A k \in QIdx : newSent'[sl][k] <= 1
          /\ StartsWhilePlaying(sl)
             => /\ sessions'[sl] = sessions[sl]
                /\ starters'[sl].sleep = starters[sl].sleep]_vars

(* C35: a client id is in the player list of at most one session that is
   waiting or playing *)
Memberships(c) ==
    {sl \in SSlots : /\ sessions[sl].id > 0
                     /\ sessions[sl].status \in {"waiting", "playing"}
                     /\ c \in PlayerIds(sessions[sl])}

C35_OneMembership == \A c \in ClientIds : Cardinality(Memberships(c)) <= 1

(* C36: the number of players of a session never exceeds
   MAX_PLAYERS_PER_SESSION, and no join writes a SessionPlayer behind the
   players array *)
C36_WithinCapacity ==
    [][/\ \A sl \in SSlots : Len(sessions'[sl].players) <= MAX_PLAYERS_PER_SESSION
       /\ \A i \in Slots :
             /\ (pc[i] = "idle" /\ pc'[i] = "join_set")
                => Len(sessions[hsess'[i]].players) < MAX_PLAYERS_PER_SESSION
             /\ (/\ pc[i] = "create_join" /\ pc'[i] = "idle"
                 /\ join_result(sessions[hsess[i]], clients[i].id) = 0)
                => Len(sessions[hsess[i]].players) < MAX_PLAYERS_PER_SESSION]_vars

(* C39: send_to_client writes the message whenever some slot of the client
   table holds a connected client with that id, whatever connections and
   disconnections came before *)
C39_SendReachesConnected ==
    \A c \in ClientIds : IsConnected(c) => send_to_client(clients, num_clients, c)

(* C40: in a battle session every player has 0 <= lives <= L0 and is
   eliminated iff its lives are 0; no step lowers a player's lives by more
   than 1; the lives, score, eliminated-at and correct answers of an
   eliminated player never change again; in a solo session no player is
   eliminated *)
LivesInRange(s) ==
    \A k \in 1 .. Len(s.players) :
       IF s.mode = "battle"
       THEN /\ 0 <= s.players[k].lives
            /\ s.players[k].lives <= s.initial_lives
            /\ s.players[k].eliminated = (s.players[k].lives = 0)
       ELSE ~s.players[k].eliminated

LivesStep(p, q) ==
    /\ q.lives <= p.lives
    /\ q.lives >= p.lives - 1
    /\ p.eliminated
       => /\ q.eliminated
          /\ q.lives = p.lives
          /\ q.score = p.score
          /\ q.eliminated_at = p.eliminated_at
          /\ q.correct_answers = p.correct_answers

C40_LivesAndElimination ==
    [][\A sl \in SSlots :
          /\ LivesInRange(sessions'[sl])
          /\ sessions'[sl].id = sessions[sl].id
             => \A a \in 1 .. Len(sessions[sl].players) :
                   \A b \in 1 .. Len(sessions'[sl].players) :
                      sessions[sl].players[a].client_id = sessions'[sl].players[b].client_id
                      => LivesStep(sessions[sl].players[a], sessions'[sl].players[b])]_vars

(* a battle session plays its second question after the penalty of the first
   one eliminated a player: that player keeps 0 lives and the score of
   before, the others keep all their lives *)
C40_Witness ==
    \E sl \in SSlots :
       /\ sessions[sl].mode = "battle"
       /\ sessions[sl].status = "playing"
       /\ sessions[sl].current_question = 1
       /\ \E k \in 1 .. Len(sessions[sl].players) :
             /\ sessions[sl].players[k].eliminated
             /\ sessions[sl].players[k].lives = 0
             /\ sessions[sl].players[k].eliminated_at = 1
       /\ \E k \in 1 .. Len(sessions[sl].players) :
             /\ ~sessions[sl].players[k].eliminated
             /\ sessions[sl].players[k].lives = sessions[sl].initial_lives
             /\ sessions[sl].players[k].has_answered

(* C32: when the disconnect cleanup of a client completes, no waiting or
   playing session contains a player with that client's id, the remaining
   members of the session it left have been sent session/player/left, and
   the client's table slot is no longer connected *)
CleanupCompletes(i) ==
    /\ pc[i] \in {"idle", "leave_end"}
    /\ clients[i].connected
    /\ pc'[i] = "none"

CleanedUp(i) ==
    /\ ~clients'[i].connected
    /\ \A sl \in SSlots :
          sessions'[sl].status \in {"waiting", "playing"}
          => clients[i].id \notin PlayerIds(sessions'[sl])
    /\ \A sl \in SSlots :
          (/\ pc[i] = "idle"
           /\ sessions[sl].id > 0
           /\ sessions[sl].id = clients[i].current_session_id
           /\ clients[i].id \in PlayerIds(sessions[sl]))
          => PlayerIds(sessions'[sl]) \subseteq leftTo'[sl]

C32_DisconnectCleanup ==
    [][\A i \in Slots : CleanupCompletes(i) => CleanedUp(i)]_vars

(* C31: locks are only acquired in the order clients lock, sessions lock,
   per-session lock, accounts lock: no thread acquires the clients lock
   while it holds a per-session lock *)
LockRank(m) ==
    CASE m = "clients_mutex" -> 1
      [] m = "sessions_mutex" -> 2
      [] m = "accounts_mutex" -> 4
      [] OTHER -> 3

Acquires(t, m) == mutex_owner[m] # t /\ mutex_owner'[m] = t

C31_LockOrder ==
    [][\A t \in LockThreads : \A m \in Mutexes :
          Acquires(t, m)
          => \A held \in Mutexes : mutex_owner[held] = t => LockRank(held) < LockRank(m)]_vars

(* C34: in no reachable state is there a set of threads each waiting for a
   mutex owned by a thread of the set; a set of one thread is a thread
   locking a mutex it already holds *)
Waiting(t) ==
    /\ lock_program[t] # << >>
    /\ Head(lock_program[t]).op = "lock"
    /\ mutex_owner[Head(lock_program[t]).m] # NoThread

WaitsFor(t) == mutex_owner[Head(lock_program[t]).m]

C34_NoDeadlock ==
    \A S \in (SUBSET LockThreads) \ {{}} :
       ~(\A t \in S : Waiting(t) /\ WaitsFor(t) \in S)

(* a chain of waits that does not close: a thread waits for a session mutex
   whose owner waits for clients_mutex, whose owner is not waiting *)
C34_Witness ==
    \E a, b, c \in LockThreads :
       /\ Waiting(a) /\ WaitsFor(a) = b
       /\ Head(lock_program[a]).m \in {session_mutex(sl) : sl \in SSlots}
       /\ Waiting(b) /\ WaitsFor(b) = c
       /\ Head(lock_program[b]).m = "clients_mutex"
       /\ ~Waiting(c)

====
